---- MODULE Spec2Model ----
(***************************************************************************)
(* A model of dns-lots-of-lookups: the Experiment configuration and its    *)
(* validation, the server selectors, the ramped worker pool fed through an *)
(* unbuffered names channel, and the per-query counters.                   *)
(*                                                                         *)
(* The repository holds several revisions of package dnslol.  The variable *)
(* rev names the revision that is built:                                   *)
(*   "servers"   src/dnslol/dnslol.go          (flat Servers list)         *)
(*   "selector"  src/unnamed/part_000:1-310    (DNSServerSelector, CAA)    *)
(*   "db"        src/unnamed/part_000:312-723  (Count, per-query fan-out,  *)
(*                                              results saved to a db)     *)
(***************************************************************************)
EXTENDS Integers, Sequences, FiniteSets, TLC

(***************************************************************************)
(* Bounds of the model.                                                    *)
(***************************************************************************)
MaxParallel == 2
MaxSpawnRate == 2
MaxServers == 2
MaxDBServers == 1
MaxCount == 2
MaxQueries == 2
MaxSelServers == 3
MaxCallers == 2
MaxCalls == 5
MaxNameLen == 5

(***************************************************************************)
(* Program constants.                                                      *)
(***************************************************************************)
\* time.Second, in nanoseconds (the unit of time.Duration).
Second == 1000000000

Nil == "nil"

Revisions == {"servers", "selector", "db"}

(***************************************************************************)
(* Strings are sequences of one-character strings, so that strings.Split   *)
(* and strings.Join can be computed.                                       *)
(***************************************************************************)
EmptyString == << >>
A_COM == <<"a", ".", "c", "o", "m">>
B_COM == <<"b", ".", "c", "o", "m">>

\* The addresses a run can be configured with, in configuration order.
Address(i) == "s" \o ToString(i)
Addresses(n) == [i \in 1..n |-> Address(i)]
AddressLists == {Addresses(n) : n \in 0..MaxServers}
DBAddressLists == {Addresses(n) : n \in 0..MaxDBServers}
SelAddressLists == {Addresses(n) : n \in 1..MaxSelServers}
SelInputLists == {Addresses(n) : n \in 0..MaxSelServers}

(***************************************************************************)
(* Selectors (stats.go:66-133).  A selector value is a record with its     *)
(* kind and addresses, NilSelector standing for the nil interface value;   *)
(* the round-robin cursor and its mutex are the variables whichServer and  *)
(* whichMu.  The kind "pickServer" is the package-level round robin of     *)
(* cmd/dnslol/lookups.go, which returns one address instead of a slice.    *)
(***************************************************************************)
NilSelector == [kind |-> "nil", addresses |-> << >>]

NewComparisonSelector(addresses) ==
  IF Len(addresses) < 1 THEN NilSelector
  ELSE [kind |-> "comparison", addresses |-> addresses]

\* A constructor without the check of len(addresses).
NewRoundRobinSelector_AcceptEmpty(addresses) ==
  [kind |-> "roundRobin", addresses |-> addresses]

NewRoundRobinSelector(addresses) ==
  IF Len(addresses) < 1 THEN NilSelector
  ELSE [kind |-> "roundRobin", addresses |-> addresses]

Selectors ==
  {NewComparisonSelector(a) : a \in AddressLists}
    \cup {NewRoundRobinSelector(a) : a \in AddressLists}

(***************************************************************************)
(* Experiment.  One record type carries the fields of all revisions; a     *)
(* field a revision does not have keeps the one value given here.          *)
(***************************************************************************)
Experiments(r, metricsAddrs, commandLines, protos, timeouts, parallels, spawnRates) ==
  [MetricsAddr : metricsAddrs,
   CommandLine : commandLines,
   Servers : IF r = "selector" THEN {<< >>}
             ELSE IF r = "db" THEN DBAddressLists ELSE AddressLists,
   Selector : IF r = "selector" THEN Selectors ELSE {NilSelector},
   Proto : protos,
   Timeout : timeouts,
   Parallel : parallels,
   SpawnRate : spawnRates,
   CheckA : BOOLEAN,
   CheckAAAA : BOOLEAN,
   CheckTXT : BOOLEAN,
   CheckCAA : IF r = "selector" THEN BOOLEAN ELSE {FALSE},
   Count : IF r = "db" THEN 0..MaxCount ELSE {1}]

\* Experiment.Valid of the revision with a flat Servers list.
ValidServers(e) ==
  IF e.MetricsAddr = "" THEN "Experiment must have a non-empty MetricsAddr"
  ELSE IF e.CommandLine = "" THEN "Experiment must have a non-empty CommandLine"
  ELSE IF Len(e.Servers) < 1 THEN "Experiment must have at least one Servers address"
  ELSE IF e.Proto # "tcp" /\ e.Proto # "udp"
    THEN "Experiment must have a Proto value of tcp or udp"
  ELSE IF e.Timeout < Second THEN "Experiment must have a Timeout greater than 1 second"
  ELSE IF e.Parallel < 1 THEN "Experiment must have a Parallel value greater than 1"
  ELSE IF e.SpawnRate < 1 THEN "Experiment must have a SpawnRate value greater than 1"
  ELSE IF ~e.CheckA /\ ~e.CheckAAAA /\ ~e.CheckTXT
    THEN "Experiment must have at least one CheckA, CheckAAAA, or CheckTXT set to true"
  ELSE Nil

\* Experiment.Valid of the revision with a Selector.
ValidSelector(e) ==
  IF e.MetricsAddr = "" THEN "Experiment must have a non-empty MetricsAddr"
  ELSE IF e.CommandLine = "" THEN "Experiment must have a non-empty CommandLine"
  ELSE IF e.Selector = NilSelector THEN "Experiment must have a non-nil Selector"
  ELSE IF e.Proto # "tcp" /\ e.Proto # "udp"
    THEN "Experiment must have a Proto value of tcp or udp"
  ELSE IF e.Timeout < Second THEN "Experiment must have a Timeout greater than 1 second"
  ELSE IF e.Parallel < 1 THEN "Experiment must have a Parallel value greater than 1"
  ELSE IF e.SpawnRate < 1 THEN "Experiment must have a SpawnRate value greater than 1"
  ELSE IF ~e.CheckA /\ ~e.CheckAAAA /\ ~e.CheckTXT /\ ~e.CheckCAA
    THEN "Experiment must have at least one CheckA, CheckAAAA, CheckTXT or CheckCAA set to true"
  ELSE Nil

\* Valid() of the db revision without its check of Count.
ValidDB_NoCount(e) == ValidServers(e)

\* Experiment.Valid of the revision with a Count and a database.
ValidDB(e) ==
  IF e.MetricsAddr = "" THEN "Experiment must have a non-empty MetricsAddr"
  ELSE IF e.CommandLine = "" THEN "Experiment must have a non-empty CommandLine"
  ELSE IF Len(e.Servers) < 1 THEN "Experiment must have at least one Servers address"
  ELSE IF e.Proto # "tcp" /\ e.Proto # "udp"
    THEN "Experiment must have a Proto value of tcp or udp"
  ELSE IF e.Timeout < Second THEN "Experiment must have a Timeout greater than 1 second"
  ELSE IF e.Parallel < 1 THEN "Experiment must have a Parallel value greater than 1"
  ELSE IF e.SpawnRate < 1 THEN "Experiment must have a SpawnRate value greater than 1"
  ELSE IF ~e.CheckA /\ ~e.CheckAAAA /\ ~e.CheckTXT
    THEN "Experiment must have at least one CheckA, CheckAAAA, or CheckTXT set to true"
  ELSE IF e.Count < 1 THEN "Experiment must have a Count greater than 0"
  ELSE Nil

Valid(r, e) ==
  IF r = "servers" THEN ValidServers(e)
  ELSE IF r = "selector" THEN ValidSelector(e)
  ELSE ValidDB(e)

(***************************************************************************)
(* strings.Split and strings.Join for a one-character separator.           *)
(***************************************************************************)
IndexOf(s, c) ==
  IF \E i \in 1..Len(s) : s[i] = c
  THEN CHOOSE i \in 1..Len(s) : s[i] = c /\ \A j \in 1..(i - 1) : s[j] # c
  ELSE 0

RECURSIVE Split(_, _)
Split(s, sep) ==
  LET i == IndexOf(s, sep) IN
    IF i = 0 THEN <<s>>
    ELSE <<SubSeq(s, 1, i - 1)>> \o Split(SubSeq(s, i + 1, Len(s)), sep)

RECURSIVE Join(_, _)
Join(elems, sep) ==
  IF Len(elems) = 0 THEN << >>
  ELSE IF Len(elems) = 1 THEN elems[1]
  ELSE elems[1] \o <<sep>> \o Join(Tail(elems), sep)

(***************************************************************************)
(* Record types and response codes of the dns package.                     *)
(***************************************************************************)
TypeA == 1
TypeTXT == 16
TypeAAAA == 28
TypeDNAME == 39
TypeCAA == 257
TypeToString(t) ==
  IF t = TypeA THEN "A" ELSE IF t = TypeTXT THEN "TXT"
  ELSE IF t = TypeAAAA THEN "AAAA" ELSE IF t = TypeDNAME THEN "DNAME" ELSE "CAA"

RcodeSuccess == 0
RcodeNameError == 3
RcodeToString(c) == IF c = RcodeSuccess THEN "NOERROR" ELSE "NXDOMAIN"

(***************************************************************************)
(* buildQueries.                                                           *)
(***************************************************************************)
\* queryPerServer: one query per server (count queries per server in the db
\* revision), in server order.
queryPerServer_Twice(name, typ, servers, count) ==
  [k \in 1..(Len(servers) * count * 2) |->
     [Server |-> servers[((k - 1) \div (count * 2)) + 1], Name |-> name, Type |-> typ]]

queryPerServer(name, typ, servers, count) ==
  [k \in 1..(Len(servers) * count) |->
     [Server |-> servers[((k - 1) \div count) + 1], Name |-> name, Type |-> typ]]

\* A CAA check that asks for the name alone and does not climb.
caaClimb_NameOnly(labels, i, servers) ==
  queryPerServer(Join(labels, "."), TypeCAA, servers, 1)

\* The CAA tree climb: one batch of queries for every suffix labels[i:].
RECURSIVE caaClimb(_, _, _)
caaClimb(labels, i, servers) ==
  IF i > Len(labels) THEN << >>
  ELSE queryPerServer(Join(SubSeq(labels, i, Len(labels)), "."), TypeCAA, servers, 1)
         \o caaClimb(labels, i + 1, servers)

\* A buildQueries that asks for AAAA before A.
buildQueriesServers_AAAAFirst(e, name, servers, count) ==
  (IF e.CheckAAAA THEN queryPerServer(name, TypeAAAA, servers, count) ELSE << >>)
    \o (IF e.CheckA THEN queryPerServer(name, TypeA, servers, count) ELSE << >>)
    \o (IF e.CheckTXT THEN queryPerServer(name, TypeTXT, servers, count) ELSE << >>)

\* buildQueries of the servers revision and of the db revision: servers is
\* e.Servers (addresses) or e.servers (saved servers), count is 1 or e.Count.
buildQueriesServers(e, name, servers, count) ==
  (IF e.CheckA THEN queryPerServer(name, TypeA, servers, count) ELSE << >>)
    \o (IF e.CheckAAAA THEN queryPerServer(name, TypeAAAA, servers, count) ELSE << >>)
    \o (IF e.CheckTXT THEN queryPerServer(name, TypeTXT, servers, count) ELSE << >>)

\* buildQueries of the selector revision.
buildQueriesSelector(e, name, servers) ==
  (IF e.CheckA THEN queryPerServer(name, TypeA, servers, 1) ELSE << >>)
    \o (IF e.CheckAAAA THEN queryPerServer(name, TypeAAAA, servers, 1) ELSE << >>)
    \o (IF e.CheckTXT THEN queryPerServer(name, TypeTXT, servers, 1) ELSE << >>)
    \o (IF e.CheckCAA THEN caaClimb(Split(name, "."), 1, servers) ELSE << >>)

(***************************************************************************)
(* queryOne.  A response of the resolution collaborator is a record: err   *)
(* is "nil", "timeout" (a net.OpError with Timeout()), "net" (another      *)
(* net.OpError) or "other" (an error of another type, whose text is text); *)
(* rcode and answer are the reply's when err is "nil".                     *)
(***************************************************************************)
RespOK == [err |-> "nil", text |-> "", rcode |-> RcodeSuccess, answer |-> << >>]
RespTimeout == [err |-> "timeout", text |-> "i/o timeout", rcode |-> 0, answer |-> << >>]
RespNet == [err |-> "net", text |-> "connection refused", rcode |-> 0, answer |-> << >>]
RespOther == [err |-> "other", text |-> "dns: id mismatch", rcode |-> 0, answer |-> << >>]
RespNX == [err |-> "nil", text |-> "", rcode |-> RcodeNameError, answer |-> << >>]
CAARecord(tag) == [rrtype |-> TypeCAA, tag |-> tag, text |-> "CAA 0 " \o tag \o " ca"]
RespCAA(tag) ==
  [err |-> "nil", text |-> "", rcode |-> RcodeSuccess, answer |-> <<CAARecord(tag)>>]

\* strings.ToLower on the tags of the model.
ToLower(tag) == IF tag \in {"Issue", "ISSUE"} THEN "issue" ELSE tag

\* A normalisation that gives every error that is not a timeout the one
\* text "net err".
NormalizedError_Generic(resp) ==
  IF resp.err = "timeout" THEN "timeout" ELSE "net err"

\* The error text after the net.OpError normalisation.
NormalizedError(resp) ==
  IF resp.err = "timeout" THEN "timeout"
  ELSE IF resp.err = "net" THEN "net err"
  ELSE resp.text

\* A check of the first record of the answer alone.
FirstMismatch_FirstRecordOnly(answer) ==
  IF /\ Len(answer) >= 1
     /\ answer[1].rrtype = TypeCAA
     /\ ToLower(answer[1].tag) # answer[1].tag
  THEN 1 ELSE 0

\* The first CAA record of the answer whose tag is not lower case, or 0.
FirstMismatch(answer) ==
  LET bad == {i \in 1..Len(answer) :
                answer[i].rrtype = TypeCAA /\ ToLower(answer[i].tag) # answer[i].tag}
  IN IF bad = {} THEN 0 ELSE CHOOSE i \in bad : \A j \in bad : i <= j

\* queryOne of the servers and db revisions: the error, Nil on success.
queryOneServers(q, resp) ==
  IF resp.err # "nil" THEN NormalizedError(resp)
  ELSE IF resp.rcode # RcodeSuccess THEN RcodeToString(resp.rcode)
  ELSE Nil

\* A queryOne that looks at the tags before it looks at the rcode.
queryOneSelector_TagFirst(q, resp) ==
  IF resp.err # "nil"
  THEN [resultType |-> "", success |-> FALSE,
        err |-> "for " \o TypeToString(q.Type) \o ": " \o NormalizedError(resp)]
  ELSE LET i == FirstMismatch(resp.answer) IN
    IF i # 0
    THEN [resultType |-> "", success |-> FALSE,
          err |-> "tag mismatch for " \o ToLower(resp.answer[i].tag) \o ": "
                    \o resp.answer[i].text]
    ELSE IF resp.rcode # RcodeSuccess
    THEN [resultType |-> RcodeToString(resp.rcode), success |-> FALSE, err |-> Nil]
    ELSE [resultType |-> RcodeToString(resp.rcode), success |-> TRUE, err |-> Nil]

\* queryOne of the selector revision: (resultType, success, err).
queryOneSelector(q, resp) ==
  IF resp.err # "nil"
  THEN [resultType |-> "", success |-> FALSE,
        err |-> "for " \o TypeToString(q.Type) \o ": " \o NormalizedError(resp)]
  ELSE IF resp.rcode # RcodeSuccess
  THEN [resultType |-> RcodeToString(resp.rcode), success |-> FALSE, err |-> Nil]
  ELSE LET i == FirstMismatch(resp.answer) IN
    IF i # 0
    THEN [resultType |-> "", success |-> FALSE,
          err |-> "tag mismatch for " \o ToLower(resp.answer[i].tag) \o ": "
                    \o resp.answer[i].text]
    ELSE [resultType |-> RcodeToString(resp.rcode), success |-> TRUE, err |-> Nil]

\* dnsClient.Exchange(m, q.Server) with a resolver that gives r: the records
\* of r come in the answer to a question of their type only.
Reply(r, q) == [r EXCEPT !.answer = SelectSeq(@, LAMBDA rr : rr.rrtype = q.Type)]

\* The outcome of one query as runQueries uses it: whether successes is
\* incremented and the result label.
Outcome(r, q, resp) ==
  IF r = "selector"
  THEN LET o == queryOneSelector(q, resp) IN
    [success |-> o.err = Nil /\ o.success,
     label |-> IF o.err # Nil THEN o.err ELSE o.resultType]
  ELSE LET err == queryOneServers(q, resp) IN
    [success |-> err = Nil, label |-> IF err # Nil THEN err ELSE "ok"]

(***************************************************************************)
(* saveQueryResult of the db revision.                                     *)
(***************************************************************************)
maxInsertRetries == 3

\* What e.db.Exec returns for the successive INSERTs of one result: nil or an
\* error, for each of the calls that saveQueryResult can make.
ExecErrs == [1..maxInsertRetries -> {Nil, "database is locked"}]
Inserted == [i \in 1..maxInsertRetries |-> Nil]
NeverInserted == [i \in 1..maxInsertRetries |-> "database is locked"]

\* A loop without its break.
StopInserting_Never(err) == FALSE

\* if err == nil { break }
StopInserting(err) == err = Nil

\* for i := 0; i < maxInsertRetries; i++ { _, err = e.db.Exec(...) ... }: the
\* number of calls of Exec, the rows inserted and the last error.
RECURSIVE insertLoop(_, _, _)
insertLoop(errs, i, done) ==
  IF i < maxInsertRetries
  THEN LET now == [execs |-> done.execs + 1,
                   rows |-> done.rows + (IF errs[i + 1] = Nil THEN 1 ELSE 0),
                   err |-> errs[i + 1]]
       IN IF StopInserting(now.err) THEN now ELSE insertLoop(errs, i + 1, now)
  ELSE done

\* saveQueryResult: up to maxInsertRetries INSERTs, and when the last error
\* is not nil log.Fatalf ends the process.
saveQueryResult(errs) == insertLoop(errs, 0, [execs |-> 0, rows |-> 0, err |-> Nil])

\* prom: vec.With(labels).Add(1) and the value of a child of a vector.
Inc(f, k) == IF k \in DOMAIN f THEN [f EXCEPT ![k] = @ + 1] ELSE f @@ (k :> 1)
Val(f, k) == IF k \in DOMAIN f THEN f[k] ELSE 0

(***************************************************************************)
(* State.                                                                  *)
(***************************************************************************)
VARIABLES
  rev,          \* the revision of package dnslol that is built
  exp,          \* the Experiment
  commandLine,  \* the commandLine gauge, by <<line>>
  validErr,     \* what the last call of exp.Valid() returned ("unset": none yet)
  whichServer,  \* the round-robin cursor
  whichMu,      \* the cursor's mutex: 0 when unlocked, else the thread holding it
  frames,       \* frames[t]: thread t's call of PickServers
  calls,        \* the number of PickServers calls begun by the selector's callers
  overlapped,   \* whether a call was begun while another call was in progress
  picks,        \* what the callers' completed PickServers calls returned, in order
  stdin,        \* the lines of standard input: strings.Split(stdinBytes, "\n")
  resolver,     \* the responses the resolution collaborator can give
  inserts,      \* what the database can answer to the INSERTs of one result, in turn
  proc,         \* the process: "running", "returned" (main returned) or "fatal"
  mainPC,       \* where main is
  lineIdx,      \* the line of stdin main's feeding loop is at
  startErr,     \* what Start returned ("unset": it has not returned)
  metricsStarted, \* whether the metrics server's goroutine was started
  dnsClient,    \* the *dns.Client handed to spawn (Nil: none)
  db,           \* the db revision's connection, experiment id and saved servers
  namesClosed,  \* whether the names channel is closed
  wg,           \* the counter of main's WaitGroup
  spawner,      \* the spawn goroutine: its position and its loop variables i, j
  workers,      \* workers[w]: the w-th worker goroutine started by spawn
  attempts,     \* stats.attempts, by server
  successes,    \* stats.successes, by server
  results,      \* stats.results, by <<server, result>>
  queryTimes,   \* the number of samples of stats.queryTimes, by <<server, type>>
  sent,         \* the number of names whose send on the channel has completed
  acks          \* acks[l]: how many times Done was called for the name of line l

cfgVars == <<rev, exp, commandLine>>
selVars == <<whichServer, whichMu, frames>>
callerVars == <<calls, overlapped, picks>>
inputVars == <<stdin, resolver, inserts>>
mainVars == <<proc, mainPC, lineIdx, startErr, metricsStarted, dnsClient, db>>
chanVars == <<namesClosed, wg, sent>>
statVars == <<attempts, successes, results, queryTimes>>
engineVars == <<inputVars, mainVars, chanVars, spawner, workers, statVars, acks>>
vars == <<cfgVars, validErr, selVars, callerVars, engineVars>>

\* os.Args of the run.
Args == <<<<"d", "n", "s", "l", "o", "l">>, <<"-", "c", "h", "e", "c", "k", "A">>>>

\* The commandLine gauge once main has begun: main of lookups.go starts with
\* commandLine.With(prom.Labels{"line": strings.Join(os.Args, " ")}).Set(1);
\* package dnslol creates stats.commandLine and has no statement that sets it.
CommandLineAtStart(r) ==
  IF r = "lookups" THEN (<<Join(Args, " ")>> :> 1) ELSE << >>

\* The engine before main has run.
EngineIdle ==
  /\ proc = "running"
  /\ mainPC = "start"
  /\ lineIdx = 1
  /\ startErr = "unset"
  /\ metricsStarted = FALSE
  /\ dnsClient = Nil
  /\ db = [open |-> FALSE, id |-> 0, servers |-> << >>, rows |-> 0, execs |-> 0]
  /\ namesClosed = FALSE
  /\ wg = 0
  /\ spawner = [pc |-> "unstarted", i |-> 0, j |-> 0]
  /\ workers = << >>
  /\ attempts = << >>
  /\ successes = << >>
  /\ results = << >>
  /\ queryTimes = << >>
  /\ sent = 0
  /\ acks = [l \in DOMAIN stdin |-> 0]

(***************************************************************************)
(* Valid() applied to the Experiments of every revision.                   *)
(***************************************************************************)
MetricsAddrs == {"", ":6363"}
CommandLines == {"", "dnslol -checkA"}
Protos == {"tcp", "udp", "sctp", ""}
Timeouts == {0, Second - 1, Second, 2 * Second}

AllExperiments(r) ==
  Experiments(r, MetricsAddrs, CommandLines, Protos, Timeouts,
              0..MaxParallel, 0..MaxSpawnRate)

InitValid ==
  /\ rev \in Revisions
  /\ commandLine = CommandLineAtStart(rev)
  /\ exp \in AllExperiments(rev)
  /\ validErr = "unset"
  /\ whichServer = 0
  /\ whichMu = 0
  /\ frames = << >>
  /\ calls = 0
  /\ overlapped = FALSE
  /\ picks = << >>
  /\ stdin = << >>
  /\ resolver = {}
  /\ inserts = {}
  /\ EngineIdle

CallValid ==
  /\ validErr = "unset"
  /\ validErr' = Valid(rev, exp)
  /\ UNCHANGED <<cfgVars, selVars, callerVars, engineVars>>

SpecValid == InitValid /\ [][CallValid]_vars

NumServers(r, e) ==
  IF r = "selector" THEN Len(e.Selector.addresses) ELSE Len(e.Servers)

IdleFrame == [pc |-> "idle", which |-> 0, ret |-> << >>]

\* Go's remainder truncates toward zero: it is negative for a negative a
\* that b does not divide (a % b is here the remainder in 0..b-1).
GoRem(a, b) == IF a >= 0 \/ a % b = 0 THEN a % b ELSE (a % b) - b

\* The type int: 32 bits wide on a 32-bit platform, 64 bits on the others.
\* The model takes the 32 bits.
IntMax == (2^30 - 1) + 2^30
IntMin == (0 - IntMax) - 1

\* x++ on an int: signed overflow wraps around.
IntInc(x) == IF x = IntMax THEN IntMin ELSE x + 1

\* The call begins: a comparisonSelector has nothing to lock.
BeginPickServers(t) ==
  [frames EXCEPT ![t] =
     [pc |-> IF exp.Selector.kind = "comparison" THEN "return" ELSE "lock",
      which |-> 0, ret |-> << >>]]

\* A mutex that excludes nobody.
MutexFree_NoExclusion(mu) == TRUE

\* sync.Mutex: Lock returns only when no thread holds the mutex.
MutexFree(mu) == mu = 0

\* w.whichMu.Lock()
Lock(t) ==
  /\ frames[t].pc = "lock"
  /\ MutexFree(whichMu)
  /\ whichMu' = t
  /\ frames' = [frames EXCEPT ![t].pc = "read"]
  /\ UNCHANGED whichServer

\* which := w.whichServer
ReadCursor(t) ==
  /\ frames[t].pc = "read"
  /\ frames' = [frames EXCEPT ![t].pc = "incr", ![t].which = whichServer]
  /\ UNCHANGED <<whichServer, whichMu>>

\* w.whichServer++
IncrCursor(t) ==
  /\ frames[t].pc = "incr"
  /\ whichServer' = IntInc(whichServer)
  /\ frames' = [frames EXCEPT ![t].pc = "unlock"]
  /\ UNCHANGED whichMu

\* A PickServers that returns with the mutex still held.
Unlock_Kept(t) ==
  /\ frames[t].pc = "unlock"
  /\ frames' = [frames EXCEPT ![t].pc = "return"]
  /\ UNCHANGED <<whichServer, whichMu>>

\* w.whichMu.Unlock()
Unlock(t) ==
  /\ frames[t].pc = "unlock"
  /\ whichMu' = 0
  /\ frames' = [frames EXCEPT ![t].pc = "return"]
  /\ UNCHANGED whichServer

\* A comparison selector that returns only its first address.
comparisonPickServers_First(addresses) == <<addresses[1]>>

\* comparisonSelector.PickServers: return w.addresses
comparisonPickServers(addresses) == addresses

\* An index taken after the increment instead of before it.
RoundRobinIndex_AfterIncrement(which, n) == GoRem(which + 1, n)

\* which%len(w.addresses)
RoundRobinIndex(which, n) == GoRem(which, n)

\* A round-robin selector that returns every address, from the cursor on.
PickResult_AllFrom(sel, which) ==
  IF sel.kind = "pickServer"
  THEN sel.addresses[RoundRobinIndex(which, Len(sel.addresses)) + 1]
  ELSE [k \in DOMAIN sel.addresses |->
          sel.addresses[RoundRobinIndex(which + k - 1, Len(sel.addresses)) + 1]]

\* The value of the return statement.
PickResult(sel, which) ==
  IF sel.kind = "comparison" THEN comparisonPickServers(sel.addresses)
  ELSE IF sel.kind = "roundRobin"
    THEN <<sel.addresses[RoundRobinIndex(which, Len(sel.addresses)) + 1]>>
  ELSE sel.addresses[RoundRobinIndex(which, Len(sel.addresses)) + 1]

\* The remainder by zero panics, and so does indexing a slice with a
\* negative index.
PickPanics(sel, which) ==
  /\ sel.kind # "comparison"
  /\ \/ Len(sel.addresses) = 0
     \/ RoundRobinIndex(which, Len(sel.addresses)) < 0

\* return []string{w.addresses[which%len(w.addresses)]}, or return w.addresses
Return(t) ==
  /\ frames[t].pc = "return"
  /\ frames' =
       IF PickPanics(exp.Selector, frames[t].which)
       THEN [frames EXCEPT ![t].pc = "panic"]
       ELSE [frames EXCEPT ![t].pc = "done",
                           ![t].ret = PickResult(exp.Selector, frames[t].which)]
  /\ UNCHANGED <<whichServer, whichMu>>

(***************************************************************************)
(* The selectors under concurrent callers.                                 *)
(***************************************************************************)
\* The selectors the constructors give (none, NilSelector, for no address),
\* and serversSplit with pickServer of cmd/dnslol/lookups.go.
SelSelectors ==
  {NewComparisonSelector(a) : a \in SelInputLists}
    \cup {NewRoundRobinSelector(a) : a \in SelInputLists}
    \cup {[kind |-> "pickServer", addresses |-> a] : a \in SelAddressLists}

BaseExperiment ==
  [MetricsAddr |-> ":6363", CommandLine |-> "dnslol -checkA",
   Servers |-> << >>, Selector |-> NilSelector, Proto |-> "udp",
   Timeout |-> Second, Parallel |-> 1, SpawnRate |-> 1,
   CheckA |-> TRUE, CheckAAAA |-> FALSE, CheckTXT |-> FALSE,
   CheckCAA |-> FALSE, Count |-> 1]

InitSel ==
  /\ rev = "selector"
  /\ commandLine = CommandLineAtStart(rev)
  /\ \E s \in SelSelectors : exp = [BaseExperiment EXCEPT !.Selector = s]
  /\ validErr = "unset"
  /\ whichServer = 0
  /\ whichMu = 0
  /\ \E n \in 1..MaxCallers : frames = [t \in 1..n |-> IdleFrame]
  /\ calls = 0
  /\ overlapped = FALSE
  /\ picks = << >>
  /\ stdin = << >>
  /\ resolver = {}
  /\ inserts = {}
  /\ EngineIdle

\* A caller calls PickServers.
CallerCall(t) ==
  /\ exp.Selector # NilSelector
  /\ frames[t].pc = "idle"
  /\ calls < MaxCalls
  /\ calls' = calls + 1
  /\ overlapped' = (overlapped \/ \E u \in DOMAIN frames : frames[u].pc # "idle")
  /\ frames' = BeginPickServers(t)
  /\ UNCHANGED <<cfgVars, validErr, whichServer, whichMu, picks, engineVars>>

\* The call has returned to the caller.
CallerReturn(t) ==
  /\ frames[t].pc = "done"
  /\ picks' = Append(picks, [caller |-> t, which |-> frames[t].which,
                              ret |-> frames[t].ret])
  /\ frames' = [frames EXCEPT ![t] = IdleFrame]
  /\ UNCHANGED <<cfgVars, validErr, whichServer, whichMu, calls, overlapped, engineVars>>

\* The steps of the calls in progress.
otherThanSelVars == <<cfgVars, validErr, callerVars, engineVars>>

PickLock == \E t \in DOMAIN frames : Lock(t) /\ UNCHANGED otherThanSelVars
PickRead == \E t \in DOMAIN frames : ReadCursor(t) /\ UNCHANGED otherThanSelVars
PickIncr == \E t \in DOMAIN frames : IncrCursor(t) /\ UNCHANGED otherThanSelVars
PickUnlock == \E t \in DOMAIN frames : Unlock(t) /\ UNCHANGED otherThanSelVars
PickReturn == \E t \in DOMAIN frames : Return(t) /\ UNCHANGED otherThanSelVars

SelCall == \E t \in DOMAIN frames : CallerCall(t)
SelReturn == \E t \in DOMAIN frames : CallerReturn(t)

NextSel ==
  \/ SelCall
  \/ PickLock
  \/ PickRead
  \/ PickIncr
  \/ PickUnlock
  \/ PickReturn
  \/ SelReturn

SpecSel == InitSel /\ [][NextSel]_vars

SelAddresses == exp.Selector.addresses
RoundRobin == exp.Selector.kind \in {"roundRobin", "pickServer"}

\* What a round-robin call that read cursor value c returns.
Expected(c) ==
  IF exp.Selector.kind = "roundRobin"
  THEN <<SelAddresses[(c % Len(SelAddresses)) + 1]>>
  ELSE SelAddresses[(c % Len(SelAddresses)) + 1]

\* C8: for a round-robin selector over n >= 1 addresses called sequentially,
\* the k-th call (k from 0) returns the single element addresses[k mod n];
\* over [s1,s2,s3] four calls yield s1,s2,s3,s1.
C8_SequentialRoundRobin ==
  (RoundRobin /\ ~overlapped) =>
    \A k \in 1..Len(picks) : picks[k].ret = Expected(k - 1)

\* Four sequential calls over [s1,s2,s3] have returned s1, s2, s3, s1.
C8_Witness ==
  /\ exp.Selector.kind = "roundRobin"
  /\ SelAddresses = <<"s1", "s2", "s3">>
  /\ ~overlapped
  /\ Len(picks) = 4
  /\ [k \in 1..4 |-> picks[k].ret] = << <<"s1">>, <<"s2">>, <<"s3">>, <<"s1">> >>

\* The cursor values read so far: by the completed calls and by the calls in
\* progress that are past the read.
ObservedBy(t) == frames[t].pc \in {"incr", "unlock", "return", "done"}
NumObserved == Len(picks) + Cardinality({t \in DOMAIN frames : ObservedBy(t)})
ObservedValues ==
  {picks[k].which : k \in 1..Len(picks)}
    \cup {frames[t].which : t \in {u \in DOMAIN frames : ObservedBy(u)}}

\* The address a completed round-robin call returned.
Returned(k) ==
  IF exp.Selector.kind = "roundRobin" THEN picks[k].ret[1] ELSE picks[k].ret

\* The number of completed calls that returned address a.
TimesReturned(a) == Cardinality({k \in 1..Len(picks) : Returned(k) = a})

Quiescent == \A t \in DOMAIN frames : frames[t].pc = "idle"

\* No two calls observe the same cursor value, no value is skipped, and every
\* call returns the address of the value it observed.
AtomicCursor ==
  RoundRobin =>
    /\ ObservedValues \subseteq 0..(NumObserved - 1)
    /\ Cardinality(ObservedValues) = NumObserved
    /\ whichServer \in {NumObserved, NumObserved - 1}
    /\ \A k \in 1..Len(picks) : picks[k].ret = Expected(picks[k].which)

Balanced ==
  \A m \in 1..MaxCalls :
    Len(picks) = Len(SelAddresses) * m =>
      \A i \in 1..Len(SelAddresses) : TimesReturned(SelAddresses[i]) = m

\* C9 as stated: under any interleaving the read-and-increment is atomic, and
\* after any n*m completed calls each address has been returned m times.
C9_AsStated == AtomicCursor /\ (RoundRobin => Balanced)

\* C9, amended: the read-and-increment is atomic, and whenever n*m calls have
\* completed and no call is in progress each address has been returned m
\* times.
C9_AtomicCursor == AtomicCursor /\ ((RoundRobin /\ Quiescent) => Balanced)

\* Two callers, whose calls overlapped, have completed four calls over two
\* addresses and none is in progress.
C9_Witness ==
  /\ exp.Selector.kind = "roundRobin"
  /\ Len(SelAddresses) = 2
  /\ overlapped
  /\ Quiescent
  /\ Len(picks) = 4
  /\ \E j, k \in 1..4 : picks[j].caller # picks[k].caller

\* C10: a comparison selector returns on every call, under any interleaving
\* of callers, the full configured sequence in configured order, and a call
\* changes no selector state.
C10_Comparison ==
  /\ [](exp.Selector.kind = "comparison" =>
          \A k \in 1..Len(picks) : picks[k].ret = SelAddresses)
  /\ [][exp.Selector.kind = "comparison" =>
          UNCHANGED <<exp, whichServer, whichMu>>]_vars

\* Overlapping calls of a comparison selector over three addresses have
\* returned.
C10_Witness ==
  /\ exp.Selector.kind = "comparison"
  /\ Len(SelAddresses) = 3
  /\ overlapped
  /\ Len(picks) >= 3
  /\ \E j, k \in 1..Len(picks) : picks[j].caller # picks[k].caller

\* C11: both constructors give no selector (and an error) for zero addresses
\* and a selector over the given addresses otherwise; PickServers of a
\* selector they gave never returns an empty sequence and never panics: the
\* round-robin one returns exactly one of the addresses, the comparison one
\* at least one.
C11_NeverEmpty ==
  /\ \A a \in SelInputLists :
       /\ Len(a) = 0 =>
            NewComparisonSelector(a) = NilSelector /\ NewRoundRobinSelector(a) = NilSelector
       /\ Len(a) >= 1 =>
            /\ NewComparisonSelector(a) = [kind |-> "comparison", addresses |-> a]
            /\ NewRoundRobinSelector(a) = [kind |-> "roundRobin", addresses |-> a]
  /\ exp.Selector = NilSelector => calls = 0 /\ picks = << >>
  /\ exp.Selector.kind \in {"comparison", "roundRobin"} =>
       /\ Len(SelAddresses) >= 1
       /\ \A t \in DOMAIN frames :
            /\ frames[t].pc # "panic"
            /\ frames[t].pc = "done" => Len(frames[t].ret) >= 1
       /\ \A k \in 1..Len(picks) :
            /\ Len(picks[k].ret) >= 1
            /\ \A i \in 1..Len(picks[k].ret) :
                 \E j \in 1..Len(SelAddresses) : picks[k].ret[i] = SelAddresses[j]
            /\ exp.Selector.kind = "roundRobin" => Len(picks[k].ret) = 1

\* A round-robin selector over one address has answered three calls.
C11_Witness ==
  /\ exp.Selector = NewRoundRobinSelector(<<"s1">>)
  /\ Len(picks) = 3
  /\ \A k \in 1..3 : picks[k].ret = <<"s1">>

(***************************************************************************)
(* The engine: main, Start, spawn and the workers.                         *)
(***************************************************************************)
Newline == "\n"
\* What standard input can hold.
StdinBytes ==
  {EmptyString,
   A_COM \o <<Newline>>,
   A_COM \o <<Newline>> \o B_COM \o <<Newline>>}
Inputs == {Split(b, Newline) : b \in StdinBytes}

\* A DNSServerSelector whose PickServers returns no server: the interface
\* admits it, the two constructors never give it.
EmptySelector == [kind |-> "comparison", addresses |-> << >>]

EngineExperiments(r) ==
  LET es == {e \in Experiments(r, MetricsAddrs, CommandLines \ {""}, {"udp", "sctp"},
                               {Second - 1, Second}, 0..MaxParallel, 0..MaxSpawnRate) :
               ~e.CheckAAAA /\ ~e.CheckTXT /\ ~e.CheckCAA}
  IN IF r = "selector"
     THEN es \cup {[e EXCEPT !.Selector = EmptySelector] : e \in es}
     ELSE es

\* The number of queries runQueries builds for name.
Planned(r, e, name) ==
  IF r = "selector"
  THEN IF Len(e.Selector.addresses) = 0 THEN 0
       ELSE Len(buildQueriesSelector(e, name, PickResult(e.Selector, 0)))
  ELSE Len(buildQueriesServers(e, name, e.Servers, e.Count))

\* The experiments the engine is run on: every invalid one; every valid one
\* that plans at most one query for a name; and, with the whole of the
\* concurrency started in one batch, those that plan up to MaxQueries.
Checked(r, e, input) ==
  \/ Valid(r, e) # Nil
  \/ \A l \in DOMAIN input : Planned(r, e, input[l]) <= 1
  \/ /\ e.Parallel = MaxParallel
     /\ e.SpawnRate = MaxSpawnRate
     /\ \A l \in DOMAIN input : Planned(r, e, input[l]) <= MaxQueries

Init ==
  /\ rev \in Revisions
  /\ commandLine = CommandLineAtStart(rev)
  /\ stdin \in Inputs
  /\ exp \in {e \in EngineExperiments(rev) : Checked(rev, e, stdin)}
  /\ resolver = {RespOK, RespTimeout}
  /\ inserts = {Inserted, NeverInserted}
  /\ validErr = "unset"
  /\ whichServer = 0
  /\ whichMu = 0
  /\ frames = << >>
  /\ calls = 0
  /\ overlapped = FALSE
  /\ picks = << >>
  /\ EngineIdle

Running == proc = "running"

workerVars == <<workers, statVars, acks>>

\* main calls dnslol.Start.
MainCallStart ==
  /\ Running /\ mainPC = "start"
  /\ mainPC' = "validating"
  /\ UNCHANGED <<cfgVars, validErr, selVars, callerVars, inputVars, proc, lineIdx,
                 startErr, metricsStarted, dnsClient, db, chanVars, spawner, workerVars>>

\* A Start that goes on whatever Valid() returned.
StartRejects_Never(err) == FALSE

\* Start returns the error of Valid() when there is one.
StartRejects(err) == err # Nil

\* Start: if err := e.Valid(); err != nil { return err }
StartValidate ==
  /\ Running /\ mainPC = "validating"
  /\ validErr' = Valid(rev, exp)
  /\ IF StartRejects(validErr')
     THEN startErr' = validErr' /\ mainPC' = "startReturned"
     ELSE startErr' = startErr /\ mainPC' = "starting"
  /\ UNCHANGED <<cfgVars, selVars, callerVars, inputVars, proc, lineIdx,
                 metricsStarted, dnsClient, db, chanVars, spawner, workerVars>>

\* saveExperiment: the experiment's id and one saved server per address.
SavedServers(addresses) == [i \in DOMAIN addresses |-> [id |-> i, address |-> addresses[i]]]

\* A spawn that sleeps before its first batch.
SpawnBegins_Asleep == "sleep"

\* go spawn(e, dnsClient, names, wg): spawn begins at its outer loop.
SpawnBegins == "outer"

\* What can go wrong in saveExperiment: its at-th INSERT (the first is the
\* experiment's, the others the servers') fails in Exec or in LastInsertId.
NoFailure == [at |-> 0, kind |-> "none"]
SaveFailures(e) == [at : 1..(Len(e.Servers) + 1), kind : {"Exec", "LastInsertId"}]

\* A saveExperiment that writes each server to e.servers as soon as it is
\* inserted.
saveExperiment_Partial(e, d, fail) ==
  IF fail.at = 1
  THEN [err |-> fail.kind, id |-> IF fail.kind = "Exec" THEN d.id ELSE 0,
        servers |-> d.servers]
  ELSE IF fail.at > 1
  THEN [err |-> fail.kind, id |-> 1,
        servers |-> SavedServers(SubSeq(e.Servers, 1, fail.at - 2))]
  ELSE [err |-> Nil, id |-> 1, servers |-> SavedServers(e.Servers)]

\* saveExperiment with a database whose tables are empty: what it returns and
\* what it leaves in e.id and e.servers.  The servers inserted are kept in
\* the local savedServers until all of them are.
saveExperiment(e, d, fail) ==
  IF fail.at = 1
  THEN [err |-> fail.kind, id |-> IF fail.kind = "Exec" THEN d.id ELSE 0,
        servers |-> d.servers]
  ELSE IF fail.at > 1
  THEN [err |-> fail.kind, id |-> 1, servers |-> d.servers]
  ELSE [err |-> Nil, id |-> 1, servers |-> SavedServers(e.Servers)]

\* Start, after the validation: the metrics server is started, the db
\* revision opens the database and saves the experiment, and spawn is started.
StartRun ==
  /\ Running /\ mainPC = "starting"
  /\ metricsStarted' = TRUE
  /\ db' = IF rev = "db"
            THEN LET saved == saveExperiment(exp, db, NoFailure) IN
              [open |-> TRUE, id |-> saved.id, servers |-> saved.servers,
               rows |-> 0, execs |-> 0]
            ELSE db
  /\ dnsClient' = "client"
  /\ spawner' = [pc |-> SpawnBegins, i |-> 0, j |-> 0]
  /\ startErr' = Nil
  /\ mainPC' = "startReturned"
  /\ UNCHANGED <<cfgVars, validErr, selVars, callerVars, inputVars, proc, lineIdx,
                 chanVars, workerVars>>

\* Start of the db revision: sql.Open fails and Start returns its error.
StartOpenFails ==
  /\ Running /\ mainPC = "starting" /\ rev = "db"
  /\ metricsStarted' = TRUE
  /\ startErr' = "sql: unknown driver"
  /\ mainPC' = "startReturned"
  /\ UNCHANGED <<cfgVars, validErr, selVars, callerVars, inputVars, proc, lineIdx,
                 dnsClient, db, chanVars, spawner, workerVars>>

\* Start of the db revision: saveExperiment fails and log.Fatalf ends the run.
StartSaveFails ==
  /\ Running /\ mainPC = "starting" /\ rev = "db"
  /\ metricsStarted' = TRUE
  /\ \E fail \in SaveFailures(exp) :
       LET saved == saveExperiment(exp, db, fail) IN
         db' = [db EXCEPT !.open = TRUE, !.id = saved.id, !.servers = saved.servers]
  /\ proc' = "fatal"
  /\ UNCHANGED <<cfgVars, validErr, selVars, callerVars, inputVars, mainPC, lineIdx,
                 startErr, dnsClient, chanVars, spawner, workerVars>>

\* main: if err != nil { log.Fatalf("Error running experiment") }
MainStartFailed ==
  /\ Running /\ mainPC = "startReturned" /\ startErr # Nil
  /\ proc' = "fatal"
  /\ UNCHANGED <<cfgVars, validErr, selVars, callerVars, inputVars, mainPC, lineIdx,
                 startErr, metricsStarted, dnsClient, db, chanVars, spawner, workerVars>>

MainStartOK ==
  /\ Running /\ mainPC = "startReturned" /\ startErr = Nil
  /\ mainPC' = "loop"
  /\ UNCHANGED <<cfgVars, validErr, selVars, callerVars, inputVars, proc, lineIdx,
                 startErr, metricsStarted, dnsClient, db, chanVars, spawner, workerVars>>

\* The feeding loop: if name == "" { continue }
MainSkipEmpty ==
  /\ Running /\ mainPC = "loop"
  /\ lineIdx <= Len(stdin) /\ stdin[lineIdx] = EmptyString
  /\ lineIdx' = lineIdx + 1
  /\ UNCHANGED <<cfgVars, validErr, selVars, callerVars, inputVars, proc, mainPC,
                 startErr, metricsStarted, dnsClient, db, chanVars, spawner, workerVars>>

\* The feeding loop: wg.Add(1), and main is at names <- name.
MainAdd ==
  /\ Running /\ mainPC = "loop"
  /\ lineIdx <= Len(stdin) /\ stdin[lineIdx] # EmptyString
  /\ wg' = wg + 1
  /\ mainPC' = "send"
  /\ UNCHANGED <<cfgVars, validErr, selVars, callerVars, inputVars, proc, lineIdx,
                 startErr, metricsStarted, dnsClient, db, namesClosed, sent, spawner,
                 workerVars>>

\* The feeding loop ends.
MainEndOfInput ==
  /\ Running /\ mainPC = "loop"
  /\ lineIdx > Len(stdin)
  /\ mainPC' = "close"
  /\ UNCHANGED <<cfgVars, validErr, selVars, callerVars, inputVars, proc, lineIdx,
                 startErr, metricsStarted, dnsClient, db, chanVars, spawner, workerVars>>

\* close(names)
MainClose ==
  /\ Running /\ mainPC = "close"
  /\ namesClosed' = TRUE
  /\ mainPC' = "wait"
  /\ UNCHANGED <<cfgVars, validErr, selVars, callerVars, inputVars, proc, lineIdx,
                 startErr, metricsStarted, dnsClient, db, wg, sent, spawner, workerVars>>

\* wg.Wait() returns when the counter is zero, and main returns.
MainWait ==
  /\ Running /\ mainPC = "wait"
  /\ wg = 0
  /\ mainPC' = "done"
  /\ proc' = "returned"
  /\ UNCHANGED <<cfgVars, validErr, selVars, callerVars, inputVars, lineIdx,
                 startErr, metricsStarted, dnsClient, db, chanVars, spawner, workerVars>>

(***************************************************************************)
(* spawn.                                                                  *)
(***************************************************************************)
mainState == <<proc, mainPC, lineIdx, startErr, metricsStarted, dnsClient, db>>
notSpawnerVars ==
  <<cfgVars, validErr, whichServer, whichMu, callerVars, inputVars, mainState,
    chanVars, statVars, acks>>

NoOutcome == [success |-> FALSE, label |-> ""]
IdleWorker ==
  [pc |-> "recv", line |-> 0, name |-> EmptyString, queries |-> << >>, qi |-> 0,
   out |-> NoOutcome, children |-> << >>, lwg |-> 0]

\* for i := 0; i < exp.Parallel; { : the outer loop goes round.
SpawnBatch ==
  /\ Running /\ spawner.pc = "outer"
  /\ spawner.i < exp.Parallel
  /\ spawner' = [spawner EXCEPT !.pc = "inner", !.j = 0]
  /\ UNCHANGED <<notSpawnerVars, frames, workers>>

\* The outer loop ends and spawn returns.
SpawnReturn ==
  /\ Running /\ spawner.pc = "outer"
  /\ ~(spawner.i < exp.Parallel)
  /\ spawner' = [spawner EXCEPT !.pc = "done"]
  /\ UNCHANGED <<notSpawnerVars, frames, workers>>

\* for j := 0; j < exp.SpawnRate; i, j = i+1, j+1 { go func() {...}() }
SpawnWorker ==
  /\ Running /\ spawner.pc = "inner"
  /\ spawner.j < exp.SpawnRate
  /\ workers' = Append(workers, IdleWorker)
  /\ frames' = Append(frames, IdleFrame)
  /\ spawner' = [spawner EXCEPT !.i = @ + 1, !.j = @ + 1]
  /\ UNCHANGED notSpawnerVars

\* A spawn that goes from a batch straight to the next one.
AfterBatch_NoSleep == "outer"

\* time.Sleep(exp.SpawnInterval) follows the inner loop.
AfterBatch == "sleep"

\* The inner loop ends: time.Sleep(exp.SpawnInterval) begins.
SpawnSleep ==
  /\ Running /\ spawner.pc = "inner"
  /\ ~(spawner.j < exp.SpawnRate)
  /\ spawner' = [spawner EXCEPT !.pc = AfterBatch]
  /\ UNCHANGED <<notSpawnerVars, frames, workers>>

\* time.Sleep returns.
SpawnWake ==
  /\ Running /\ spawner.pc = "sleep"
  /\ spawner' = [spawner EXCEPT !.pc = "outer"]
  /\ UNCHANGED <<notSpawnerVars, frames, workers>>

(***************************************************************************)
(* The workers.                                                            *)
(***************************************************************************)
notWorkerVars ==
  <<cfgVars, validErr, whichServer, whichMu, callerVars, inputVars, spawner>>

\* A channel whose send does not wait for a receiver.
ReceiverReady_Any(wk) == TRUE

\* An unbuffered channel: a send completes only with a goroutine blocked in
\* the receive.
ReceiverReady(wk) == wk.pc = "recv"

\* names <- name in main meets "for name := range names" in a worker that is
\* waiting to receive.
Handoff(w) ==
  /\ Running /\ mainPC = "send" /\ ~namesClosed
  /\ ReceiverReady(workers[w])
  /\ workers' = [workers EXCEPT ![w].pc = "run", ![w].line = lineIdx,
                                 ![w].name = stdin[lineIdx]]
  /\ sent' = sent + 1
  /\ lineIdx' = lineIdx + 1
  /\ mainPC' = "loop"
  /\ UNCHANGED <<notWorkerVars, frames, proc, startErr, metricsStarted, dnsClient,
                 db, namesClosed, wg, statVars, acks>>

\* A range loop that can end while the channel is open.
RangeEnds_Anytime(closed) == TRUE

\* for name := range names ends when names is closed (it is unbuffered, so
\* nothing is left in it).
RangeEnds(closed) == closed

\* The range loop of a waiting worker ends when the channel is closed.
WorkerExit(w) ==
  /\ Running /\ workers[w].pc = "recv" /\ RangeEnds(namesClosed)
  /\ workers' = [workers EXCEPT ![w].pc = "exited"]
  /\ UNCHANGED <<notWorkerVars, frames, mainState, chanVars, statVars, acks>>

\* The first statement after the queries are built.
AfterBuild(queries) ==
  IF rev = "db" THEN "fanout" ELSE IF Len(queries) = 0 THEN "ack" ELSE "attempt"

\* rand.Shuffle: any order of the queries.
Shuffles(queries) ==
  {[k \in DOMAIN queries |-> queries[p[k]]] :
     p \in {f \in [DOMAIN queries -> DOMAIN queries] :
              \A a, b \in DOMAIN queries : a # b => f[a] # f[b]}}

\* A runQueries without the check of dnsClient.
NilClient_Ignored(client) == FALSE

\* if dnsClient == nil
NilClient(client) == client = Nil

\* runQueries begins: the nil check of dnsClient; then the selector revision
\* calls PickServers, the other revisions build (and the db revision
\* shuffles) their queries.
WorkerRun(w) ==
  /\ Running /\ workers[w].pc = "run"
  /\ IF NilClient(dnsClient)
     THEN /\ proc' = "fatal"
          /\ UNCHANGED <<workers, frames>>
     ELSE /\ proc' = proc
          /\ IF rev = "selector"
             THEN /\ frames' = BeginPickServers(w)
                  /\ workers' = [workers EXCEPT ![w].pc = "pick"]
             ELSE /\ frames' = frames
                  /\ \E qs \in IF rev = "db"
                                THEN Shuffles(buildQueriesServers(exp, workers[w].name,
                                                                  db.servers, exp.Count))
                                ELSE {buildQueriesServers(exp, workers[w].name,
                                                          exp.Servers, 1)} :
                       workers' = [workers EXCEPT ![w].pc = AfterBuild(qs),
                                                  ![w].queries = qs, ![w].qi = 1]
  /\ UNCHANGED <<notWorkerVars, mainPC, lineIdx, startErr, metricsStarted, dnsClient,
                 db, chanVars, statVars, acks>>

\* A runQueries without the check of len(servers).
ZeroServers_Ignored(servers) == FALSE

\* if len(servers) == 0 { return errors.New(...) }
ZeroServers(servers) == Len(servers) = 0

\* PickServers has returned: the check for zero servers (the error makes the
\* worker call log.Fatalf), and buildQueries.
WorkerPicked(w) ==
  /\ Running /\ workers[w].pc = "pick" /\ frames[w].pc = "done"
  /\ frames' = [frames EXCEPT ![w] = IdleFrame]
  /\ IF ZeroServers(frames[w].ret)
     THEN proc' = "fatal" /\ workers' = workers
     ELSE /\ proc' = proc
          /\ LET qs == buildQueriesSelector(exp, workers[w].name, frames[w].ret) IN
               workers' = [workers EXCEPT ![w].pc = AfterBuild(qs),
                                          ![w].queries = qs, ![w].qi = 1]
  /\ UNCHANGED <<notWorkerVars, mainPC, lineIdx, startErr, metricsStarted, dnsClient,
                 db, chanVars, statVars, acks>>

\* The server label of a query: its address.
ServerLabel(q) == IF rev = "db" THEN q.Server.address ELSE q.Server

\* A runQueries that does not count its attempts.
CountAttempt_Skipped(att, q) == att

\* stats.attempts.With(prom.Labels{"server": q.Server}).Add(1), the first
\* statement for a query.
CountAttempt(att, q) == Inc(att, ServerLabel(q))

\* stats.attempts.With(prom.Labels{"server": q.Server}).Add(1)
WorkerAttempt(w) ==
  /\ Running /\ workers[w].pc = "attempt"
  /\ attempts' = CountAttempt(attempts, workers[w].queries[workers[w].qi])
  /\ workers' = [workers EXCEPT ![w].pc = "exchange"]
  /\ UNCHANGED <<notWorkerVars, frames, mainState, chanVars, successes, results,
                 queryTimes, acks>>

\* A queryOne that observes the round-trip time of answered queries only.
Observe_Answered(times, q, resp) ==
  IF resp.err = "nil"
  THEN Inc(times, <<ServerLabel(q), TypeToString(q.Type)>>)
  ELSE times

\* stats.queryTimes.With(prom.Labels{"server": q.Server, "type": typStr})
\*   .Observe(rtt.Seconds()), before the error of the exchange is looked at.
Observe(times, q, resp) == Inc(times, <<ServerLabel(q), TypeToString(q.Type)>>)

\* A runQueries that counts every query as a success.
AfterExchange_Always(o) == "success"

\* The branch of runQueries after queryOne: successes is incremented for a
\* success only.
AfterExchange(o) == IF o.success THEN "success" ELSE "result"

\* A runQueries that records the results of successful queries only.
Record_SuccessOnly(res, q, o) ==
  IF o.success THEN Inc(res, <<ServerLabel(q), o.label>>) ELSE res

\* A record that overwrites the child of the vector with a new one.
Record_Fresh(res, q, o) == (<<ServerLabel(q), o.label>> :> 1) @@ res

\* stats.results.With(resultLabels).Add(1)
Record(res, q, o) == Inc(res, <<ServerLabel(q), o.label>>)

\* A loop that counts the attempt of the first query alone.
NextQuery_Uncounted(wk) == IF wk.qi < Len(wk.queries) THEN "exchange" ELSE "ack"

\* for _, q := range queries: the next query begins with its attempt.
NextQuery(wk) == IF wk.qi < Len(wk.queries) THEN "attempt" ELSE "ack"

\* queryOne: the exchange with the server returns, its round-trip time is
\* observed and the response is classified.
WorkerExchange(w) ==
  /\ Running /\ workers[w].pc = "exchange"
  /\ LET q == workers[w].queries[workers[w].qi] IN
     \E r \in resolver :
       LET o == Outcome(rev, q, Reply(r, q)) IN
         /\ queryTimes' = Observe(queryTimes, q, Reply(r, q))
         /\ workers' = [workers EXCEPT ![w].out = o, ![w].pc = AfterExchange(o)]
  /\ UNCHANGED <<notWorkerVars, frames, mainState, chanVars, attempts, successes,
                 results, acks>>

\* stats.successes.With(prom.Labels{"server": q.Server}).Add(1)
WorkerSuccess(w) ==
  /\ Running /\ workers[w].pc = "success"
  /\ successes' = Inc(successes, ServerLabel(workers[w].queries[workers[w].qi]))
  /\ workers' = [workers EXCEPT ![w].pc = "result"]
  /\ UNCHANGED <<notWorkerVars, frames, mainState, chanVars, attempts, results,
                 queryTimes, acks>>

\* stats.results.With(resultLabels).Add(1), and the loop goes to the next query.
WorkerResult(w) ==
  /\ Running /\ workers[w].pc = "result"
  /\ results' = Record(results, workers[w].queries[workers[w].qi], workers[w].out)
  /\ workers' = [workers EXCEPT ![w].out = NoOutcome, ![w].qi = @ + 1,
                                 ![w].pc = NextQuery(workers[w])]
  /\ UNCHANGED <<notWorkerVars, frames, mainState, chanVars, attempts, successes,
                 queryTimes, acks>>

\* A worker that returns after its first name.
AfterDone_Exit == "exited"

\* After wg.Done() the range loop receives the next name.
AfterDone == "recv"

\* runQueries has returned nil: wg.Done(), and the worker receives again.  A
\* negative WaitGroup counter panics.
WorkerDone(w) ==
  /\ Running /\ workers[w].pc = "ack"
  /\ wg' = wg - 1
  /\ acks' = [acks EXCEPT ![workers[w].line] = @ + 1]
  /\ proc' = IF wg' < 0 THEN "panic" ELSE proc
  /\ workers' = [workers EXCEPT ![w] = [IdleWorker EXCEPT !.pc = AfterDone]]
  /\ UNCHANGED <<notWorkerVars, frames, mainPC, lineIdx, startErr, metricsStarted,
                 dnsClient, db, namesClosed, sent, statVars>>

(***************************************************************************)
(* The db revision: runQueries runs every query on a goroutine of its own  *)
(* and waits for them on a local WaitGroup (the worker's lwg).             *)
(***************************************************************************)

NewChild(q) == [q |-> q, pc |-> "attempt", out |-> NoOutcome]

\* for _, q := range queries { wg.Add(1); go func(q query) {...}(q) }
WorkerGo(w) ==
  /\ Running /\ workers[w].pc = "fanout"
  /\ workers[w].qi <= Len(workers[w].queries)
  /\ workers' = [workers EXCEPT
                    ![w].children = Append(@, NewChild(workers[w].queries[workers[w].qi])),
                    ![w].lwg = @ + 1,
                    ![w].qi = @ + 1]
  /\ UNCHANGED <<notWorkerVars, frames, mainState, chanVars, statVars, acks>>

\* A runQueries that does not wait for its goroutines.
JoinReady_NoWait(wk) == TRUE

\* wg.Wait() returns when the local counter is zero.
JoinReady(wk) == wk.lwg = 0

\* Goroutines that run one after the other: the c-th goes on only when the
\* ones started before it have finished.
ChildAt_InTurn(w, c, pc) ==
  /\ Running
  /\ c \in DOMAIN workers[w].children
  /\ workers[w].children[c].pc = pc
  /\ \A d \in 1..(c - 1) : workers[w].children[d].pc = "finished"

\* The loop has ended: wg.Wait(), and runQueries returns nil.
WorkerJoin(w) ==
  /\ Running /\ workers[w].pc = "fanout"
  /\ workers[w].qi > Len(workers[w].queries)
  /\ JoinReady(workers[w])
  /\ workers' = [workers EXCEPT ![w].pc = "ack"]
  /\ UNCHANGED <<notWorkerVars, frames, mainState, chanVars, statVars, acks>>

ChildAt(w, c, pc) ==
  /\ Running
  /\ c \in DOMAIN workers[w].children
  /\ workers[w].children[c].pc = pc

ChildAttempt(w, c) ==
  /\ ChildAt(w, c, "attempt")
  /\ attempts' = CountAttempt(attempts, workers[w].children[c].q)
  /\ workers' = [workers EXCEPT ![w].children[c].pc = "exchange"]
  /\ UNCHANGED <<notWorkerVars, frames, mainState, chanVars, successes, results,
                 queryTimes, acks>>

ChildExchange(w, c) ==
  /\ ChildAt(w, c, "exchange")
  /\ LET q == workers[w].children[c].q IN
     \E r \in resolver :
       LET o == Outcome(rev, q, Reply(r, q)) IN
         /\ queryTimes' = Observe(queryTimes, q, Reply(r, q))
         /\ workers' = [workers EXCEPT ![w].children[c].out = o,
                                        ![w].children[c].pc = AfterExchange(o)]
  /\ UNCHANGED <<notWorkerVars, frames, mainState, chanVars, attempts, successes,
                 results, acks>>

ChildSuccess(w, c) ==
  /\ ChildAt(w, c, "success")
  /\ successes' = Inc(successes, ServerLabel(workers[w].children[c].q))
  /\ workers' = [workers EXCEPT ![w].children[c].pc = "result"]
  /\ UNCHANGED <<notWorkerVars, frames, mainState, chanVars, attempts, results,
                 queryTimes, acks>>

ChildResult(w, c) ==
  /\ ChildAt(w, c, "result")
  /\ results' = Record(results, workers[w].children[c].q, workers[w].children[c].out)
  /\ workers' = [workers EXCEPT ![w].children[c].pc = "save",
                                 ![w].children[c].out = NoOutcome]
  /\ UNCHANGED <<notWorkerVars, frames, mainState, chanVars, attempts, successes,
                 queryTimes, acks>>

ChildSave(w, c) ==
  /\ ChildAt(w, c, "save")
  /\ \E errs \in inserts :
       LET saved == saveQueryResult(errs) IN
         /\ workers' = [workers EXCEPT ![w].children[c].pc =
                              IF saved.err = Nil THEN "done" ELSE "save"]
         /\ db' = [db EXCEPT !.rows = @ + saved.rows, !.execs = @ + saved.execs]
         /\ proc' = IF saved.err = Nil THEN proc ELSE "fatal"
  /\ UNCHANGED <<notWorkerVars, frames, mainPC, lineIdx, startErr, metricsStarted,
                 dnsClient, chanVars, statVars, acks>>

\* The goroutine's wg.Done() on the local WaitGroup.
ChildDone(w, c) ==
  /\ ChildAt(w, c, "done")
  /\ workers' = [workers EXCEPT ![w].children[c].pc = "finished", ![w].lwg = @ - 1]
  /\ UNCHANGED <<notWorkerVars, frames, mainState, chanVars, statVars, acks>>

(***************************************************************************)
(* The specification of the engine.                                        *)
(***************************************************************************)
\* The steps of a worker's call of PickServers.
WorkerPickLock == Running /\ PickLock
WorkerPickRead == Running /\ PickRead
WorkerPickIncr == Running /\ PickIncr
WorkerPickUnlock == Running /\ PickUnlock
WorkerPickReturn == Running /\ PickReturn

Workers == DOMAIN workers

DoHandoff == \E w \in Workers : Handoff(w)
DoWorkerExit == \E w \in Workers : WorkerExit(w)
DoWorkerRun == \E w \in Workers : WorkerRun(w)
DoWorkerPicked == \E w \in Workers : WorkerPicked(w)
DoWorkerAttempt == \E w \in Workers : WorkerAttempt(w)
DoWorkerExchange == \E w \in Workers : WorkerExchange(w)
DoWorkerSuccess == \E w \in Workers : WorkerSuccess(w)
DoWorkerResult == \E w \in Workers : WorkerResult(w)
DoWorkerDone == \E w \in Workers : WorkerDone(w)
DoWorkerGo == \E w \in Workers : WorkerGo(w)
DoWorkerJoin == \E w \in Workers : WorkerJoin(w)
DoChildAttempt == \E w \in Workers : \E c \in DOMAIN workers[w].children : ChildAttempt(w, c)
DoChildExchange == \E w \in Workers : \E c \in DOMAIN workers[w].children : ChildExchange(w, c)
DoChildSuccess == \E w \in Workers : \E c \in DOMAIN workers[w].children : ChildSuccess(w, c)
DoChildResult == \E w \in Workers : \E c \in DOMAIN workers[w].children : ChildResult(w, c)
DoChildSave == \E w \in Workers : \E c \in DOMAIN workers[w].children : ChildSave(w, c)
DoChildDone == \E w \in Workers : \E c \in DOMAIN workers[w].children : ChildDone(w, c)

Next ==
  \/ MainCallStart
  \/ StartValidate
  \/ StartRun
  \/ StartOpenFails
  \/ StartSaveFails
  \/ MainStartFailed
  \/ MainStartOK
  \/ MainSkipEmpty
  \/ MainAdd
  \/ MainEndOfInput
  \/ MainClose
  \/ MainWait
  \/ SpawnBatch
  \/ SpawnReturn
  \/ SpawnWorker
  \/ SpawnSleep
  \/ SpawnWake
  \/ DoHandoff
  \/ DoWorkerExit
  \/ DoWorkerRun
  \/ DoWorkerPicked
  \/ WorkerPickLock
  \/ WorkerPickRead
  \/ WorkerPickIncr
  \/ WorkerPickUnlock
  \/ WorkerPickReturn
  \/ DoWorkerAttempt
  \/ DoWorkerExchange
  \/ DoWorkerSuccess
  \/ DoWorkerResult
  \/ DoWorkerDone
  \/ DoWorkerGo
  \/ DoWorkerJoin
  \/ DoChildAttempt
  \/ DoChildExchange
  \/ DoChildSuccess
  \/ DoChildResult
  \/ DoChildSave
  \/ DoChildDone

Spec == Init /\ [][Next]_vars

(***************************************************************************)
(* Properties of the engine.                                               *)
(***************************************************************************)
RECURSIVE SumOver(_, _)
SumOver(f, keys) ==
  IF keys = {} THEN 0
  ELSE LET k == CHOOSE x \in keys : TRUE IN f[k] + SumOver(f, keys \ {k})

\* The sum of the children of a counter vector.
Total(f) == SumOver(f, DOMAIN f)

\* The names handed to a worker, and those acknowledged with wg.Done().
Acked == Total(acks)
Unacked == sent - Acked

ValidExperiment == Valid(rev, exp) = Nil
Stopped == proc # "running"
Draining == Running /\ mainPC = "wait"
RampFinished == spawner.pc = "done"
Processing(wk) == wk.pc \notin {"recv", "exited"}

NoCounterChanged ==
  /\ attempts = << >> /\ successes = << >>
  /\ results = << >> /\ queryTimes = << >>

\* C1: when Valid() returns an error, Start returns that error and nothing
\* else happens: no metrics server, no DNS client, no database, no spawn and
\* no worker, no name taken from the channel, no counter changed; main goes
\* from the validation straight to its end.
C1_InvalidStartDoesNothing ==
  ~ValidExperiment =>
    /\ ~metricsStarted
    /\ dnsClient = Nil
    /\ ~db.open
    /\ spawner.pc = "unstarted"
    /\ workers = << >>
    /\ sent = 0 /\ wg = 0 /\ ~namesClosed
    /\ NoCounterChanged
    /\ mainPC \in {"start", "validating", "startReturned"}
    /\ mainPC = "startReturned" => startErr = Valid(rev, exp)
    /\ Stopped => mainPC = "startReturned"

C1_Witness ==
  /\ ~ValidExperiment
  /\ Stopped
  /\ startErr = Valid(rev, exp)
  /\ Len(stdin) > 1

\* C3 (as stated): for a valid Experiment the workers started never exceed
\* Parallel, and when the ramp has finished exactly Parallel were started.
C3_AsStated ==
  ValidExperiment =>
    /\ Len(workers) <= exp.Parallel
    /\ RampFinished => Len(workers) = exp.Parallel

\* The ramp of a valid Experiment has finished with more workers than Parallel.
C3_Overshoot ==
  /\ ValidExperiment
  /\ RampFinished
  /\ Len(workers) > exp.Parallel

\* C4: the names channel is a rendezvous.  A send completes only in a step
\* in which a worker blocked in its receive takes the name, and the names
\* handed over and not yet acknowledged are never more than the workers
\* started.
C4_Rendezvous ==
  /\ [](Unacked <= Len(workers))
  /\ [][sent' # sent =>
          /\ sent' = sent + 1
          /\ \E w \in DOMAIN workers :
               /\ workers[w].pc = "recv"
               /\ workers'[w].pc = "run"
               /\ workers'[w].name = stdin[lineIdx]]_vars

\* The producer is blocked in its send while every worker is busy.
C4_Witness ==
  /\ mainPC = "send"
  /\ Len(workers) >= 1
  /\ RampFinished
  /\ \A w \in DOMAIN workers : Processing(workers[w])
  /\ Unacked = Len(workers)

\* The queries of a worker whose outcome is in the results counter.
Recorded(wk) ==
  IF rev = "db"
  THEN Cardinality({c \in DOMAIN wk.children :
                      wk.children[c].pc \in {"save", "done", "finished"}})
  ELSE IF wk.pc \in {"attempt", "exchange", "success", "result", "ack"}
    THEN wk.qi - 1 ELSE 0

\* The queries of a worker that were attempted.
Attempted(wk) ==
  IF rev = "db"
  THEN Cardinality({c \in DOMAIN wk.children : wk.children[c].pc # "attempt"})
  ELSE IF wk.pc \in {"exchange", "success", "result"} THEN wk.qi
  ELSE IF wk.pc \in {"attempt", "ack"} THEN wk.qi - 1 ELSE 0

WorkerSum(F(_)) == Total([w \in DOMAIN workers |-> F(workers[w])])

\* The queries planned for the names that were acknowledged.
PlannedForAcked ==
  Total([l \in DOMAIN stdin |-> acks[l] * Planned(rev, exp, stdin[l])])

\* C5: a name is acknowledged at most once, and when main returns every name
\* fed was acknowledged once; a worker is at its wg.Done() only with every
\* query planned for its name attempted and recorded, and in the db revision
\* with every goroutine of the name finished; the counters hold every query
\* of the acknowledged names; the WaitGroup counter is never negative.
C5_DoneOnceAfterAllQueries ==
  /\ wg >= 0
  /\ proc # "panic"
  /\ \A l \in DOMAIN stdin : acks[l] <= 1
  /\ \A l \in DOMAIN stdin : acks[l] = 1 => l < lineIdx /\ stdin[l] # EmptyString
  /\ proc = "returned" =>
       \A l \in DOMAIN stdin : stdin[l] # EmptyString => acks[l] = 1
  /\ \A w \in DOMAIN workers :
       workers[w].pc = "ack" =>
         /\ acks[workers[w].line] = 0
         /\ Len(workers[w].queries) = Planned(rev, exp, workers[w].name)
         /\ Recorded(workers[w]) = Len(workers[w].queries)
         /\ Attempted(workers[w]) = Len(workers[w].queries)
         /\ rev = "db" =>
              /\ workers[w].lwg = 0
              /\ Len(workers[w].children) = Len(workers[w].queries)
              /\ \A c \in DOMAIN workers[w].children :
                   workers[w].children[c].pc = "finished"
  /\ \A w, v \in DOMAIN workers :
       Processing(workers[w]) /\ Processing(workers[v]) /\ w # v =>
         workers[w].line # workers[v].line
  /\ Total(results) = PlannedForAcked + WorkerSum(Recorded)
  /\ Total(attempts) = PlannedForAcked + WorkerSum(Attempted)

\* A worker is at its wg.Done() after a name with two queries was
\* acknowledged.
C5_Witness ==
  /\ \E l \in DOMAIN stdin : acks[l] = 1 /\ Planned(rev, exp, stdin[l]) = 2
  /\ \E w \in DOMAIN workers : workers[w].pc = "ack"
  /\ proc = "running"

\* The input of the end-to-end example: the lines a.com and b.com.
TwoNames == Split(A_COM \o <<Newline>> \o B_COM \o <<Newline>>, Newline)

ServerAddresses == IF rev = "selector" THEN exp.Selector.addresses ELSE exp.Servers

EndToEndExample ==
  /\ ValidExperiment
  /\ stdin = TwoNames
  /\ exp.Parallel = 2 /\ exp.SpawnRate = 2
  /\ Len(ServerAddresses) = 1
  /\ exp.CheckA /\ ~exp.CheckAAAA /\ ~exp.CheckTXT /\ ~exp.CheckCAA

\* The queries of a worker are built.
Built(wk) == wk.pc \notin {"recv", "exited", "run", "pick"}

\* One A query for the name, against the one server.
OneAQuery(wk) ==
  /\ Len(wk.queries) = 1
  /\ wk.queries[1].Name = wk.name
  /\ wk.queries[1].Type = TypeA
  /\ ServerLabel(wk.queries[1]) = ServerAddresses[1]

EndToEnd(example) ==
  example =>
    /\ \A w \in DOMAIN workers : Built(workers[w]) => OneAQuery(workers[w])
    /\ Total(attempts) <= 2 /\ Total(queryTimes) <= 2 /\ Total(results) <= 2
    /\ DOMAIN attempts \subseteq {ServerAddresses[1]}
    /\ Acked <= 2
    /\ Acked = 2 =>
         /\ PlannedForAcked = 2
         /\ Val(attempts, ServerAddresses[1]) = 2
         /\ Total(queryTimes) = 2 /\ Total(results) = 2
         /\ sent = 2 /\ wg = 0
         /\ mainPC \in {"loop", "close", "wait", "done"}
         /\ \A w \in DOMAIN workers : ~Processing(workers[w])
    /\ proc = "returned" => Acked = 2 /\ namesClosed

\* C7 (as stated): with the names a.com and b.com, Parallel 2, SpawnRate 2,
\* one server and CheckA only, two queries are planned and executed, one A
\* query for each name against the one server; attempts for the server ends
\* at 2, and after both acknowledgements nothing is pending and no worker is
\* processing a name.
C7_AsStated == EndToEnd(EndToEndExample)

\* C7: the same for an Experiment whose Count, where the revision has one,
\* is 1.
C7_EndToEnd == EndToEnd(EndToEndExample /\ exp.Count = 1)

C7_Witness ==
  /\ EndToEndExample /\ exp.Count = 1
  /\ proc = "returned"
  /\ Val(attempts, ServerAddresses[1]) = 2
  /\ \A w \in DOMAIN workers : workers[w].pc = "exited"

(***************************************************************************)
(* Liveness.  The Go scheduler runs a goroutine that can run, time.Sleep   *)
(* returns and the resolution collaborator returns from every Exchange:    *)
(* the engine does not stop while one of its steps is possible.            *)
(***************************************************************************)
\* The runs checked for liveness: a name has at most one query, or there is
\* one name.
InitLive ==
  /\ Init
  /\ \/ \A l \in DOMAIN stdin : Planned(rev, exp, stdin[l]) <= 1
     \/ Cardinality({l \in DOMAIN stdin : stdin[l] # EmptyString}) <= 1

LiveSpec == InitLive /\ [][Next]_vars /\ WF_vars(Next)

\* Line l was handed to a worker.
Fed(l) == l < lineIdx /\ stdin[l] # EmptyString

Fatal == proc = "fatal"
MainReturned == proc = "returned"

\* The run has ended as the claim describes: every line was read and every
\* name fed and acknowledged, the channel is closed and wg.Wait has returned.
Completed ==
  /\ MainReturned
  /\ namesClosed
  /\ lineIdx > Len(stdin)
  /\ \A l \in DOMAIN stdin : stdin[l] # EmptyString => Fed(l) /\ acks[l] = 1
  /\ Unacked = 0 /\ wg = 0

SelectsNoServer ==
  /\ rev = "selector"
  /\ ValidExperiment
  /\ Len(exp.Selector.addresses) = 0

EXAMPLE_COM == <<"e", "x", "a", "m", "p", "l", "e", ".", "c", "o", "m">>
W_A_C == <<"w", ".", "a", ".", "c">>
PlanNames == {<<"c">>, A_COM, EXAMPLE_COM, W_A_C, <<"a", ".">>}

PlanExperiments(r) ==
  {e \in [MetricsAddr : {":6363"},
          CommandLine : {"dnslol -checkA"},
          Servers : IF r = "selector" THEN {<< >>}
                    ELSE {Addresses(n) : n \in 1..MaxServers},
          Selector : IF r = "selector" THEN Selectors \ {NilSelector} ELSE {NilSelector},
          Proto : {"udp"},
          Timeout : {Second},
          Parallel : {1},
          SpawnRate : {1},
          CheckA : BOOLEAN,
          CheckAAAA : BOOLEAN,
          CheckTXT : BOOLEAN,
          CheckCAA : IF r = "selector" THEN BOOLEAN ELSE {FALSE},
          Count : IF r = "db" THEN 1..MaxCount ELSE {1}] :
     Valid(r, e) = Nil}

\* The worker has received the name; in the selector revision its call of
\* PickServers, the first of the run, has returned.
HoldsName(name) ==
  [IdleWorker EXCEPT !.pc = IF rev = "selector" THEN "pick"
                           ELSE IF rev = "lookups" THEN "tryAll" ELSE "run",
                     !.line = 1, !.name = name]

\* The run in which spawn was given client and its one worker wk has
\* received the first name, which calls of PickServers made so far and frame
\* being the worker's call of PickServers.
OneWorkerAt(name, client, wk, which, frame) ==
  /\ validErr = Nil
  /\ whichServer = which
  /\ whichMu = 0
  /\ frames = <<frame>>
  /\ calls = 0
  /\ overlapped = FALSE
  /\ picks = << >>
  /\ stdin = <<name, EmptyString>>
  /\ proc = "running"
  /\ mainPC = "loop"
  /\ lineIdx = 2
  /\ startErr = Nil
  /\ metricsStarted = TRUE
  /\ dnsClient = client
  /\ db = IF rev = "db"
          THEN [open |-> TRUE, id |-> 1, servers |-> SavedServers(exp.Servers), rows |-> 0, execs |-> 0]
          ELSE [open |-> FALSE, id |-> 0, servers |-> << >>, rows |-> 0, execs |-> 0]
  /\ namesClosed = FALSE
  /\ wg = 1
  /\ spawner = [pc |-> "sleep", i |-> 1, j |-> 1]
  /\ workers = <<wk>>
  /\ attempts = << >>
  /\ successes = << >>
  /\ results = << >>
  /\ queryTimes = << >>
  /\ sent = 1
  /\ acks = <<0, 0>>

\* The worker is past the nil check of runQueries, and in the selector
\* revision past its call of PickServers.
OneWorkerHolds(name) ==
  OneWorkerAt(name, "client", HoldsName(name),
              IF exp.Selector.kind = "roundRobin" THEN 1 ELSE 0,
              IF rev = "selector"
              THEN [pc |-> "done", which |-> 0, ret |-> PickResult(exp.Selector, 0)]
              ELSE IdleFrame)

InitPlan ==
  /\ rev \in Revisions
  /\ commandLine = CommandLineAtStart(rev)
  /\ exp \in PlanExperiments(rev)
  /\ resolver = {}
  /\ inserts = {}
  /\ \E name \in PlanNames : OneWorkerHolds(name)

\* The servers when the buildQueries that has returned has emptied the
\* sequence it was given.
PlanServers_Consumed ==
  IF workers[1].pc = "built" THEN << >>
  ELSE IF rev = "selector" THEN frames[1].ret
  ELSE IF rev = "db" THEN db.servers ELSE exp.Servers

\* The servers buildQueries is given: the picked servers, e.Servers, or the
\* saved e.servers.
PlanServers ==
  IF rev = "selector" THEN frames[1].ret
  ELSE IF rev = "db" THEN db.servers ELSE exp.Servers

\* queries := e.buildQueries(name, servers)
CallBuildQueries ==
  /\ workers[1].pc \in {"run", "pick", "built"}
  /\ workers' = [workers EXCEPT
                   ![1].pc = "built",
                   ![1].queries =
                     IF rev = "selector"
                     THEN buildQueriesSelector(exp, workers[1].name, PlanServers)
                     ELSE buildQueriesServers(exp, workers[1].name, PlanServers,
                                              exp.Count)]
  /\ UNCHANGED <<notWorkerVars, frames, mainState, chanVars, statVars, acks>>

SpecPlan == InitPlan /\ [][CallBuildQueries]_vars

\* The dots of a name, the number of its dot-separated labels, and the name
\* from its k-th label on (k = 0 is the whole name).
Dots(name) == {i \in 1..Len(name) : name[i] = "."}
NumLabels(name) == Cardinality(Dots(name)) + 1
FromLabel(name, k) ==
  IF k = 0 THEN name
  ELSE LET d == CHOOSE i \in Dots(name) : Cardinality({j \in Dots(name) : j <= i}) = k
       IN SubSeq(name, d + 1, Len(name))

IsCAA(q) == q.Type = TypeCAA
PlanBuilt == workers[1].pc = "built"
QueriesOf(queries, server) == SelectSeq(queries, LAMBDA q : q.Server = server)

\* C13: with CheckCAA, for every name and every picked server the queries
\* that buildQueries returns hold exactly one CAA query per dot-separated
\* label of the name, and the k-th of them asks for the name from its k-th
\* label on ("example.com", then "com").
C13_CAAClimb ==
  (PlanBuilt /\ rev = "selector" /\ exp.CheckCAA) =>
    \A s \in DOMAIN PlanServers :
      LET caa == SelectSeq(QueriesOf(workers[1].queries, PlanServers[s]), IsCAA) IN
        /\ Len(caa) = NumLabels(workers[1].name)
        /\ \A k \in 1..Len(caa) : caa[k].Name = FromLabel(workers[1].name, k - 1)

\* "example.com" with CheckCAA and two picked servers.
C13_Witness ==
  /\ PlanBuilt /\ rev = "selector" /\ exp.CheckCAA
  /\ workers[1].name = EXAMPLE_COM
  /\ Len(PlanServers) = 2
  /\ SelectSeq(QueriesOf(workers[1].queries, "s2"), IsCAA)
       = <<[Server |-> "s2", Name |-> EXAMPLE_COM, Type |-> TypeCAA],
           [Server |-> "s2", Name |-> <<"c", "o", "m">>, Type |-> TypeCAA]>>

\* The place of a record type in the order of buildQueries, and whether the
\* Experiment checks the type.
TypeRank(typ) ==
  IF typ = TypeA THEN 1 ELSE IF typ = TypeAAAA THEN 2 ELSE IF typ = TypeTXT THEN 3 ELSE 4
TypeChecked(typ) ==
  IF typ = TypeA THEN exp.CheckA
  ELSE IF typ = TypeAAAA THEN exp.CheckAAAA
  ELSE IF typ = TypeTXT THEN exp.CheckTXT
  ELSE exp.CheckCAA
OfType(queries, typ) == SelectSeq(queries, LAMBDA q : q.Type = typ)

\* C14: buildQueries returns the A queries, then the AAAA, then the TXT, then
\* the CAA climb, a type being present exactly when it is checked; the A,
\* AAAA and TXT queries each are, server by server in the order of the
\* servers, Count consecutive queries for the name (one, in the revisions
\* without a Count); and the length of the list is the number of checked
\* types among A, AAAA and TXT times the servers times Count, plus the
\* labels of the name times the servers when CAA is checked.
C14_TypeMajor ==
  PlanBuilt =>
    LET qs == workers[1].queries
        n == Len(PlanServers)
        plain == {typ \in {TypeA, TypeAAAA, TypeTXT} : TypeChecked(typ)}
    IN /\ \A i, j \in DOMAIN qs : i < j => TypeRank(qs[i].Type) <= TypeRank(qs[j].Type)
       /\ \A typ \in {TypeA, TypeAAAA, TypeTXT, TypeCAA} :
            (\E i \in DOMAIN qs : qs[i].Type = typ) <=> TypeChecked(typ)
       /\ \A typ \in plain :
            /\ Len(OfType(qs, typ)) = n * exp.Count
            /\ \A k \in 1..(n * exp.Count) :
                 OfType(qs, typ)[k] =
                   [Server |-> PlanServers[((k - 1) \div exp.Count) + 1],
                    Name |-> workers[1].name, Type |-> typ]
       /\ Len(qs) = Cardinality(plain) * n * exp.Count
                      + (IF exp.CheckCAA THEN NumLabels(workers[1].name) * n ELSE 0)

\* A, AAAA and TXT with a Count of two for two saved servers.
C14_Witness ==
  /\ PlanBuilt /\ rev = "db"
  /\ exp.CheckA /\ exp.CheckAAAA /\ exp.CheckTXT /\ exp.Count = 2
  /\ Len(PlanServers) = 2
  /\ Len(workers[1].queries) = 12
  /\ \A k \in 1..4 :
       /\ workers[1].queries[k].Type = TypeA
       /\ workers[1].queries[k].Server.address = IF k <= 2 THEN "s1" ELSE "s2"
  /\ workers[1].queries[5].Type = TypeAAAA
  /\ workers[1].queries[9].Type = TypeTXT

(***************************************************************************)
(* runQueries of the one worker, for every kind of response of the         *)
(* resolver: each run has a resolver that gives one response.              *)
(***************************************************************************)
MaxRunQueries == 3

RunNames == {<<"c">>, A_COM}
RespNXCAA == [RespCAA("Issue") EXCEPT !.rcode = RcodeNameError]
RespTwoCAA == [RespOK EXCEPT !.answer = <<CAARecord("issue"), CAARecord("ISSUE")>>]
RunResponses ==
  {RespOK, RespTimeout, RespNet, RespOther, RespNX, RespCAA("issue"), RespCAA("Issue"),
   RespNXCAA, RespTwoCAA}

InitRun ==
  /\ rev \in Revisions
  /\ commandLine = CommandLineAtStart(rev)
  /\ \E name \in RunNames :
       /\ exp \in {e \in PlanExperiments(rev) : Planned(rev, e, name) <= MaxRunQueries}
       /\ OneWorkerHolds(name)
  /\ \E r \in RunResponses : resolver = {r}
  /\ \E errs \in (IF rev = "db" THEN ExecErrs ELSE {Inserted}) : inserts = {errs}

NextRun ==
  \/ DoWorkerRun
  \/ DoWorkerPicked
  \/ DoWorkerAttempt
  \/ DoWorkerExchange
  \/ DoWorkerSuccess
  \/ DoWorkerResult
  \/ DoWorkerDone
  \/ DoWorkerGo
  \/ DoWorkerJoin
  \/ DoChildAttempt
  \/ DoChildExchange
  \/ DoChildSuccess
  \/ DoChildResult
  \/ DoChildSave
  \/ DoChildDone

SpecRun == InitRun /\ [][NextRun]_vars

\* The queries whose exchange has returned and whose result is not yet
\* recorded, each with what runQueries holds of its outcome.
ClassifiedOf(wk) ==
  (IF wk.pc \in {"success", "result"}
   THEN {[q |-> wk.queries[wk.qi], out |-> wk.out]} ELSE {})
    \cup {[q |-> wk.children[c].q, out |-> wk.children[c].out] :
            c \in {d \in DOMAIN wk.children : wk.children[d].pc \in {"success", "result"}}}
Classified == UNION {ClassifiedOf(workers[w]) : w \in DOMAIN workers}

\* What the resolver of the run answers to a query.
TheReply(q) == Reply(CHOOSE r \in resolver : TRUE, q)

\* A CAA record whose tag has an upper-case letter.
UpperCaseTags == {"Issue", "ISSUE"}
BadTag(rr) == rr.rrtype = TypeCAA /\ rr.tag \in UpperCaseTags

\* The outcome that the order of the rules gives a response.
Priority(resp) ==
  IF resp.err = "timeout" THEN "TimeoutError"
  ELSE IF resp.err # "nil" THEN "NetworkError"
  ELSE IF resp.rcode # RcodeSuccess THEN "ProtocolFailure"
  ELSE IF \E i \in DOMAIN resp.answer : BadTag(resp.answer[i]) THEN "ValidationError"
  ELSE "Success"

\* The result labels of the outcomes.
ErrPrefix(q) == IF rev = "selector" THEN "for " \o TypeToString(q.Type) \o ": " ELSE ""
TimeoutLabel(q) == ErrPrefix(q) \o "timeout"
RcodeNames == {RcodeToString(RcodeSuccess), RcodeToString(RcodeNameError)}
MismatchLabels ==
  {"tag mismatch for issue: " \o CAARecord(tag).text : tag \in UpperCaseTags}

\* The outcome read from what runQueries holds after queryOne.
ObservedTag(q, o) ==
  IF o.success THEN "Success"
  ELSE IF o.label = TimeoutLabel(q) THEN "TimeoutError"
  ELSE IF o.label \in RcodeNames THEN "ProtocolFailure"
  ELSE IF o.label \in MismatchLabels THEN "ValidationError"
  ELSE "NetworkError"

PrintedOutcome(success) == IF success THEN "ok" ELSE "bad"

\* The response has the success rcode and a CAA record whose tag is not its
\* lower-case form.
BadTagReply(q) ==
  LET resp == TheReply(q) IN
    /\ resp.err = "nil"
    /\ resp.rcode = RcodeSuccess
    /\ \E i \in DOMAIN resp.answer : BadTag(resp.answer[i])

\* The query a worker is running, if any.
Current(wk) == IF wk.qi \in DOMAIN wk.queries THEN {wk.queries[wk.qi]} ELSE {}

\* C16: a query answered with the success rcode and at least one CAA record
\* whose tag is not lower case is a validation failure, never a success: its
\* result label is the tag mismatch, its printed outcome is "bad", and from
\* its exchange to the record of its result successes does not change.
C16_TagMismatchNeverSuccess ==
  /\ [](\A c \in Classified :
          BadTagReply(c.q) =>
            /\ ~c.out.success
            /\ c.out.label \in MismatchLabels
            /\ PrintedOutcome(c.out.success) = "bad")
  /\ [][\A w \in DOMAIN workers :
          (/\ workers[w].pc \in {"exchange", "success", "result"}
           /\ \E q \in Current(workers[w]) : BadTagReply(q)
           /\ workers'[w] # workers[w])
            => /\ successes' = successes
               /\ workers'[w].pc # "success"]_vars

\* Both CAA queries of "a.com" were answered with an "issue" and an "ISSUE"
\* record: two tag mismatches recorded and no success.
C16_Witness ==
  /\ resolver = {RespTwoCAA}
  /\ rev = "selector"
  /\ workers[1].pc = "ack"
  /\ Len(workers[1].queries) = 2
  /\ successes = << >>
  /\ attempts = ("s1" :> 2)
  /\ results = (<<"s1", "tag mismatch for issue: CAA 0 ISSUE ca">> :> 2)

\* The label of the latency sample of a query.
SampleKey(q) == <<ServerLabel(q), TypeToString(q.Type)>>

\* How many queries of a worker are past a step of runQueries: in the db
\* revision the goroutines that have left all of the positions before, in
\* the others the queries before the one at hand, and the one at hand when
\* the worker has left all of the positions before.
NumPast(wk, before, Test(_)) ==
  IF rev = "db"
  THEN Cardinality({c \in DOMAIN wk.children :
                      wk.children[c].pc \notin before /\ Test(wk.children[c].q)})
  ELSE Cardinality({k \in DOMAIN wk.queries :
                      /\ k < wk.qi \/ (k = wk.qi /\ wk.pc \notin before)
                      /\ Test(wk.queries[k])})

BeforeExchanged == {"attempt", "exchange"}
BeforeSucceeded == {"attempt", "exchange", "success"}
PlannedKeys == {SampleKey(workers[1].queries[k]) : k \in DOMAIN workers[1].queries}

\* C17: every query that was run has put exactly one sample in queryTimes,
\* under the server and the record type of the query, whatever its outcome:
\* for every server and type the samples are as many as the queries whose
\* exchange has returned, and when the name is acknowledged as many as the
\* queries planned and as the results recorded.
C17_OneSamplePerQuery ==
  /\ Processing(workers[1]) =>
       \A key \in DOMAIN queryTimes \cup PlannedKeys :
         Val(queryTimes, key)
           = NumPast(workers[1], BeforeExchanged, LAMBDA q : SampleKey(q) = key)
  /\ acks[1] = 1 =>
       /\ Total(queryTimes) = Planned(rev, exp, stdin[1])
       /\ Total(queryTimes) = Total(results)

\* An A and a CAA query that both timed out have one sample each.
C17_Witness ==
  /\ resolver = {RespTimeout}
  /\ workers[1].pc = "ack"
  /\ queryTimes = (<<"s1", "A">> :> 1) @@ (<<"s1", "CAA">> :> 1)
  /\ successes = << >>
  /\ results = (<<"s1", "for A: timeout">> :> 1) @@ (<<"s1", "for CAA: timeout">> :> 1)

PlannedServers == {ServerLabel(workers[1].queries[k]) : k \in DOMAIN workers[1].queries}

\* C19: successes of a server is incremented for a query exactly when the
\* outcome of the query is a success: runQueries holds a query as a success
\* exactly when no rule of failure applies to its response, and for every
\* server successes counts the queries with such a response that are past
\* the branch.
C19_SuccessesIffSuccess ==
  /\ \A c \in Classified : c.out.success <=> Priority(TheReply(c.q)) = "Success"
  /\ Processing(workers[1]) =>
       \A server \in DOMAIN successes \cup PlannedServers :
         Val(successes, server)
           = NumPast(workers[1], BeforeSucceeded,
                     LAMBDA q : ServerLabel(q) = server
                                  /\ Priority(TheReply(q)) = "Success")

\* Of an A and a CAA query answered with a CAA record tagged "Issue", the A
\* query alone is a success.
C19_Witness ==
  /\ resolver = {RespCAA("Issue")}
  /\ workers[1].pc = "ack"
  /\ attempts = ("s1" :> 2)
  /\ successes = ("s1" :> 1)
  /\ results = (<<"s1", "NOERROR">> :> 1)
                 @@ (<<"s1", "tag mismatch for issue: CAA 0 Issue ca">> :> 1)

(***************************************************************************)
(* The counters of the engine, server by server.                           *)
(***************************************************************************)
\* The servers under which the run counts.
CountedServers == DOMAIN attempts \cup {ServerAddresses[i] : i \in DOMAIN ServerAddresses}

\* The non-empty lines of the input: the names main feeds.
FedLines == {l \in DOMAIN stdin : stdin[l] # EmptyString}

\* The queries that buildQueries plans, for the name of line l, with a server.
PlannedWith(l, server) ==
  LET plan == IF rev = "selector"
              THEN buildQueriesSelector(exp, stdin[l], exp.Selector.addresses)
              ELSE buildQueriesServers(exp, stdin[l],
                                       IF rev = "db" THEN SavedServers(exp.Servers)
                                       ELSE exp.Servers, exp.Count)
  IN Cardinality({k \in DOMAIN plan : ServerLabel(plan[k]) = server})

\* The calls of a round-robin selector, so far, that returned the server.
PicksOf(server) ==
  Cardinality({i \in 0..(whichServer - 1) :
                 exp.Selector.addresses[(i % Len(exp.Selector.addresses)) + 1] = server})

\* The queries planned in the whole run with a server: those of every name
\* fed; with a round-robin selector those of the names whose call of
\* PickServers returned the server (the names of the runs checked plan as
\* many queries each).
PlannedFor(server) ==
  IF exp.Selector.kind = "roundRobin"
  THEN IF FedLines = {} THEN 0
       ELSE PlannedWith(CHOOSE l \in FedLines : TRUE, server) * PicksOf(server)
  ELSE Total([l \in FedLines |-> PlannedWith(l, server)])

\* A query of the server passes from before its attempt to its exchange.
Dispatches(server) ==
  \E w \in DOMAIN workers :
    \/ /\ workers[w].pc = "attempt" /\ workers'[w].pc = "exchange"
       /\ ServerLabel(workers[w].queries[workers[w].qi]) = server
    \/ \E c \in DOMAIN workers[w].children :
         /\ workers[w].children[c].pc = "attempt"
         /\ workers'[w].children[c].pc = "exchange"
         /\ ServerLabel(workers[w].children[c].q) = server

\* C18: attempts of a server is incremented exactly once for each query
\* dispatched to the server, by the step that dispatches it and by no other;
\* and when main has returned from a run it equals, for every server, the
\* number of the queries planned with that server.
C18_AttemptsOncePerQuery ==
  /\ [][\A server \in CountedServers :
          Val(attempts', server)
            = Val(attempts, server) + (IF Dispatches(server) THEN 1 ELSE 0)]_vars
  /\ [](MainReturned /\ ValidExperiment =>
          /\ exp.Selector.kind = "roundRobin" => whichServer = Cardinality(FedLines)
          /\ \A server \in CountedServers : Val(attempts, server) = PlannedFor(server))

\* Main has returned from a run of two names with a round-robin selector of
\* two servers: one attempt each.
C18_Witness ==
  /\ MainReturned
  /\ ValidExperiment
  /\ exp.Selector = NewRoundRobinSelector(<<"s1", "s2">>)
  /\ stdin = TwoNames
  /\ attempts = ("s1" :> 1) @@ ("s2" :> 1)

\* No query is between its attempt and the record of its result.
NoQueryInFlight == \A w \in DOMAIN workers : Attempted(workers[w]) = Recorded(workers[w])

ResultsOf(server) ==
  SumOver(results, {key \in DOMAIN results : key[1] = server})

\* C20: whenever no query is in flight, for every server the results of the
\* server, summed over the result labels, equal the attempts of the server.
C20_ResultsSumToAttempts ==
  NoQueryInFlight =>
    \A server \in CountedServers \cup {key[1] : key \in DOMAIN results} :
      ResultsOf(server) = Val(attempts, server)

\* A name with two queries to one server is acknowledged, one query answered
\* and one timed out.
C20_Witness ==
  /\ NoQueryInFlight
  /\ Acked >= 1
  /\ attempts = ("s1" :> 2)
  /\ results = (<<"s1", "ok">> :> 1) @@ (<<"s1", "timeout">> :> 1)

\* The workers and goroutines that record a result under the key in this step.
Recording(key) ==
  {w \in DOMAIN workers :
     /\ workers[w].pc = "result" /\ workers'[w].pc # "result"
     /\ key = <<ServerLabel(workers[w].queries[workers[w].qi]), workers[w].out.label>>}
    \cup UNION {{<<w, c>> : c \in {d \in DOMAIN workers[w].children :
                                     /\ workers[w].children[d].pc = "result"
                                     /\ workers'[w].children[d].pc # "result"
                                     /\ key = <<ServerLabel(workers[w].children[d].q),
                                                workers[w].children[d].out.label>>}} :
                  w \in DOMAIN workers}

\* Goroutines of two workers are about to record under the server and label.
ConcurrentRecords(key) ==
  \E w, v \in DOMAIN workers :
    /\ w # v
    /\ \E c \in DOMAIN workers[w].children, d \in DOMAIN workers[v].children :
         /\ workers[w].children[c].pc = "result" /\ workers[v].children[d].pc = "result"
         /\ key = <<ServerLabel(workers[w].children[c].q), workers[w].children[c].out.label>>
         /\ key = <<ServerLabel(workers[v].children[d].q), workers[v].children[d].out.label>>

TheInserts == CHOOSE errs \in inserts : TRUE
FirstAccepted(errs) ==
  IF \E i \in DOMAIN errs : errs[i] = Nil
  THEN CHOOSE i \in DOMAIN errs : errs[i] = Nil /\ \A j \in 1..(i - 1) : errs[j] # Nil
  ELSE 0

\* The goroutines of a worker that have returned from saveQueryResult.
NumSaved(wk) ==
  Cardinality({c \in DOMAIN wk.children : wk.children[c].pc \in {"done", "finished"}})

\* C22: saveQueryResult calls the INSERT at most three times and stops at
\* the first that succeeds: when the first, second or third INSERT succeeds
\* the result is stored in one row with no INSERT after it and the run goes
\* on, and when three INSERTs in a row fail the whole run is ended.
C22_InsertRetries ==
  rev = "db" =>
    LET first == FirstAccepted(TheInserts) IN
      /\ first # 0 =>
           /\ ~Fatal
           /\ db.execs = db.rows * first
           /\ Processing(workers[1]) => db.rows = NumSaved(workers[1])
           /\ acks[1] = 1 => db.rows = Planned(rev, exp, stdin[1])
      /\ first = 0 =>
           /\ db.rows = 0
           /\ db.execs \in {0, 3}
           /\ Fatal <=> db.execs = 3
           /\ acks[1] = 0

\* Two results were stored, each by a third INSERT after two that failed.
C22_Witness ==
  /\ rev = "db"
  /\ TheInserts = <<"database is locked", "database is locked", Nil>>
  /\ db.rows = 2 /\ db.execs = 6
  /\ acks[1] = 1
  /\ ~Fatal

(***************************************************************************)
(* cmd/dnslol/lookups.go: the worker of spawn, tryAll and query, for the   *)
(* one worker that holds the first name.  The counters attempts and        *)
(* successes have no label, results is labelled by the result and          *)
(* queryTimes by the type.                                                 *)
(***************************************************************************)
NoLabels == << >>
ACME_CHALLENGE ==
  <<"_", "a", "c", "m", "e", "-", "c", "h", "a", "l", "l", "e", "n", "g", "e", ".">>

DNAMERecord == [rrtype |-> TypeDNAME, tag |-> "", text |-> "DNAME d.com."]
RespDNAME == [RespOK EXCEPT !.answer = <<DNAMERecord>>]

\* The flags of lookups.go: -servers is split into serversSplit, of which
\* pickServer takes one per query.
LookupsExperiments ==
  {[BaseExperiment EXCEPT !.Selector = [kind |-> "pickServer", addresses |-> Addresses(n)],
                          !.CheckA = f[1], !.CheckAAAA = f[2], !.CheckTXT = f[3],
                          !.CheckCAA = f[4]] @@ [CheckDNAME |-> f[5]] :
     n \in 1..MaxServers, f \in [1..5 -> BOOLEAN]}

\* The queries of tryAll, in the order in which it makes them while none
\* returns an error.
tryAllQueries(e, name) ==
  LET labels == Split(name, ".") IN
    (IF e.CheckDNAME THEN <<[Name |-> name, Type |-> TypeDNAME]>> ELSE << >>)
      \o (IF e.CheckA THEN <<[Name |-> name, Type |-> TypeA]>> ELSE << >>)
      \o (IF e.CheckAAAA THEN <<[Name |-> name, Type |-> TypeAAAA]>> ELSE << >>)
      \o (IF e.CheckTXT THEN <<[Name |-> ACME_CHALLENGE \o name, Type |-> TypeTXT]>>
          ELSE << >>)
      \o (IF e.CheckCAA
          THEN [i \in 1..Len(labels) |->
                  [Name |-> Join(SubSeq(labels, i, Len(labels)), "."), Type |-> TypeCAA]]
          ELSE << >>)

\* query: the label it adds to resultStats (Nil: none) and the error it
\* returns (Nil: none).
query(q, resp) ==
  IF resp.err # "nil"
  THEN [stat |-> NormalizedError(resp),
        err |-> "for " \o TypeToString(q.Type) \o ": " \o NormalizedError(resp)]
  ELSE IF resp.rcode # RcodeSuccess
  THEN [stat |-> RcodeToString(resp.rcode),
        err |-> "for " \o TypeToString(q.Type) \o ": " \o RcodeToString(resp.rcode)]
  ELSE IF /\ q.Type = TypeDNAME
          /\ \E i \in DOMAIN resp.answer : resp.answer[i].rrtype = TypeDNAME
  THEN [stat |-> Nil, err |-> "for DNAME: nonempty"]
  ELSE LET i == FirstMismatch(resp.answer) IN
    IF i # 0
    THEN [stat |-> Nil,
          err |-> "tag mismatch for " \o ToLower(resp.answer[i].tag) \o ": "
                    \o resp.answer[i].text]
    ELSE [stat |-> Nil, err |-> Nil]

\* A tryAll that goes on after an error.
tryAllReturns_Never(err) == FALSE

\* if err != nil { return err }
tryAllReturns(err) == err # Nil

\* for name := range names { attempts.Add(1); err := tryAll(name) ...
LookupsAttempt(w) ==
  /\ Running /\ workers[w].pc = "tryAll"
  /\ attempts' = Inc(attempts, NoLabels)
  /\ LET qs == tryAllQueries(exp, workers[w].name) IN
       workers' = [workers EXCEPT ![w].queries = qs, ![w].qi = 1,
                                  ![w].pc = IF Len(qs) = 0 THEN "tryAllOK" ELSE "query"]
  /\ UNCHANGED <<notWorkerVars, frames, mainState, chanVars, successes, results,
                 queryTimes, acks>>

\* One call of query by tryAll: pickServer, the exchange, the sample of
\* queryTimes, the resultStats of a failure, and the return of tryAll at the
\* first error.
LookupsQuery(w) ==
  /\ Running /\ workers[w].pc = "query"
  /\ whichServer' = IntInc(whichServer)
  /\ LET q == workers[w].queries[workers[w].qi] IN
     \E r \in resolver :
       LET o == query(q, Reply(r, q)) IN
         /\ queryTimes' = Inc(queryTimes, <<TypeToString(q.Type)>>)
         /\ results' = IF o.stat # Nil THEN Inc(results, <<o.stat>>) ELSE results
         /\ workers' =
              IF tryAllReturns(o.err)
              THEN [workers EXCEPT ![w].out = [success |-> FALSE, label |-> o.err],
                                   ![w].pc = "tried"]
              ELSE [workers EXCEPT ![w].qi = @ + 1,
                                   ![w].pc = IF workers[w].qi < Len(workers[w].queries)
                                             THEN "query" ELSE "tryAllOK"]
  /\ UNCHANGED <<cfgVars, validErr, whichMu, callerVars, inputVars, spawner, frames,
                 mainState, chanVars, attempts, successes, acks>>

\* resultStats.With(prom.Labels{"result": "ok"}).Add(1); return nil
LookupsOK(w) ==
  /\ Running /\ workers[w].pc = "tryAllOK"
  /\ results' = Inc(results, <<"ok">>)
  /\ workers' = [workers EXCEPT ![w].out = [success |-> TRUE, label |-> ""],
                                ![w].pc = "tried"]
  /\ UNCHANGED <<notWorkerVars, frames, mainState, chanVars, attempts, successes,
                 queryTimes, acks>>

\* tryAll has returned: successes.Add(1) when it returned nil, then wg.Done().
LookupsDone(w) ==
  /\ Running /\ workers[w].pc = "tried"
  /\ successes' = IF workers[w].out.success THEN Inc(successes, NoLabels) ELSE successes
  /\ wg' = wg - 1
  /\ acks' = [acks EXCEPT ![workers[w].line] = @ + 1]
  /\ proc' = IF wg' < 0 THEN "panic" ELSE proc
  /\ workers' = [workers EXCEPT ![w] = [IdleWorker EXCEPT !.pc = AfterDone]]
  /\ UNCHANGED <<notWorkerVars, frames, mainPC, lineIdx, startErr, metricsStarted,
                 dnsClient, db, namesClosed, sent, attempts, results, queryTimes>>

DoLookupsAttempt == \E w \in Workers : LookupsAttempt(w)
DoLookupsQuery == \E w \in Workers : LookupsQuery(w)
DoLookupsOK == \E w \in Workers : LookupsOK(w)
DoLookupsDone == \E w \in Workers : LookupsDone(w)

InitLookups ==
  /\ rev = "lookups"
  /\ commandLine = CommandLineAtStart(rev)
  /\ \E name \in RunNames :
       /\ exp \in {e \in LookupsExperiments : Len(tryAllQueries(e, name)) <= MaxRunQueries}
       /\ OneWorkerHolds(name)
  /\ \E r \in RunResponses \cup {RespDNAME} : resolver = {r}
  /\ inserts = {}

\* The worker that holds a name, in the revisions of package dnslol and in
\* lookups.go.
InitQueries == InitRun \/ InitLookups

NextQueries ==
  \/ DoWorkerRun
  \/ DoWorkerPicked
  \/ DoWorkerAttempt
  \/ DoWorkerExchange
  \/ DoWorkerSuccess
  \/ DoWorkerResult
  \/ DoWorkerDone
  \/ DoWorkerGo
  \/ DoWorkerJoin
  \/ DoChildAttempt
  \/ DoChildExchange
  \/ DoChildSuccess
  \/ DoChildResult
  \/ DoChildSave
  \/ DoChildDone
  \/ DoLookupsAttempt
  \/ DoLookupsQuery
  \/ DoLookupsOK
  \/ DoLookupsDone

SpecQueries == InitQueries /\ [][NextQueries]_vars

\* The number of queries planned for the first name.
QueriesPlanned ==
  IF rev = "lookups" THEN Len(tryAllQueries(exp, stdin[1])) ELSE Planned(rev, exp, stdin[1])

\* The queries that tryAll makes for the first name: those up to the first
\* one for which query returns an error.
tryAllMade ==
  LET qs == tryAllQueries(exp, stdin[1])
      failing == {k \in DOMAIN qs : query(qs[k], TheReply(qs[k])).err # Nil}
  IN IF failing = {} THEN Len(qs) ELSE CHOOSE k \in failing : \A l \in failing : k <= l

\* The insertions of the db revision fail three times in a row.
InsertsExhausted == rev = "db" /\ FirstAccepted(TheInserts) = 0

\* C23 as stated: whatever the outcomes of its queries, when the name is
\* acknowledged every query planned for it has been made, in lookups.go as
\* in the revisions of package dnslol.
C23_AsStated ==
  /\ Fatal => InsertsExhausted
  /\ acks[1] = 1 => Total(queryTimes) = QueriesPlanned

\* C23: no outcome of a query aborts the run (the run ends only when an
\* insertion of the db revision has failed three times); until the name is
\* acknowledged the worker always has a step to take; when the name is
\* acknowledged the worker is back at the receive, and in the revisions of
\* package dnslol every planned query has been made and recorded, while
\* tryAll of lookups.go has made the queries up to the first one that
\* returned an error and no later one.
C23_FailureNeverAborts ==
  /\ Fatal => InsertsExhausted
  /\ (acks[1] = 0 /\ ~Fatal) => ENABLED NextQueries
  /\ acks[1] = 1 =>
       /\ workers[1].pc = "recv"
       /\ rev \in Revisions =>
            /\ Total(queryTimes) = QueriesPlanned
            /\ Total(results) = QueriesPlanned
       /\ rev = "lookups" =>
            /\ Total(queryTimes) = tryAllMade
            /\ Val(attempts, NoLabels) = 1
            /\ Val(successes, NoLabels) = 1
                 <=> \A k \in DOMAIN tryAllQueries(exp, stdin[1]) :
                       LET q == tryAllQueries(exp, stdin[1])[k] IN
                         query(q, TheReply(q)).err = Nil

\* In lookups.go the first of three queries timed out: the name is
\* acknowledged and the worker is back at the receive after that one query.
C23_Witness ==
  /\ rev = "lookups"
  /\ TheReply([Name |-> stdin[1], Type |-> TypeA]) = RespTimeout
  /\ QueriesPlanned = 3
  /\ acks[1] = 1
  /\ workers[1].pc = "recv"
  /\ Total(queryTimes) = 1
  /\ results = (<<"timeout">> :> 1)
  /\ ~Fatal

(***************************************************************************)
(* spawn called with a *dns.Client that may be nil: the one worker has     *)
(* received the first name and is about to call runQueries.                *)
(***************************************************************************)
SpawnResponses == {RespOK, RespTimeout}

InitSpawn ==
  /\ rev \in Revisions
  /\ commandLine = CommandLineAtStart(rev)
  /\ \E name \in RunNames :
       /\ exp \in {e \in PlanExperiments(rev) : Planned(rev, e, name) <= MaxRunQueries}
       /\ \E client \in {Nil, "client"} :
            OneWorkerAt(name, client,
                        [IdleWorker EXCEPT !.pc = "run", !.line = 1, !.name = name],
                        0, IdleFrame)
  /\ \E r \in SpawnResponses : resolver = {r}
  /\ inserts = {Inserted}

NextSpawn ==
  \/ DoWorkerRun
  \/ WorkerPickLock
  \/ WorkerPickRead
  \/ WorkerPickIncr
  \/ WorkerPickUnlock
  \/ WorkerPickReturn
  \/ DoWorkerPicked
  \/ DoWorkerAttempt
  \/ DoWorkerExchange
  \/ DoWorkerSuccess
  \/ DoWorkerResult
  \/ DoWorkerDone
  \/ DoWorkerGo
  \/ DoWorkerJoin
  \/ DoChildAttempt
  \/ DoChildExchange
  \/ DoChildSuccess
  \/ DoChildResult
  \/ DoChildSave
  \/ DoChildDone

SpecSpawn == InitSpawn /\ [][NextSpawn]_vars

\* C24: with a nil client the worker that holds a name can only take the
\* step in which runQueries returns its error and log.Fatalf ends the whole
\* run: that step is always there to take, no attempts, successes, results
\* or queryTimes counter ever changes, no server is picked and no query is
\* built for the name, and the name is never acknowledged.
C24_NilClientFatal ==
  /\ [](dnsClient = Nil =>
          /\ NoCounterChanged
          /\ acks = <<0, 0>> /\ wg = 1
          /\ workers[1].pc = "run" /\ workers[1].queries = << >>
          /\ whichServer = 0
          /\ ~Fatal => ENABLED DoWorkerRun)
  /\ [][dnsClient = Nil => Fatal']_vars

C24_Witness ==
  /\ dnsClient = Nil
  /\ Fatal
  /\ workers[1].pc = "run" /\ workers[1].name = A_COM
  /\ NoCounterChanged
  /\ acks[1] = 0

\* Start has started the run: the spawn goroutine exists.
RunStarted == spawner.pc # "unstarted"

\* C25 as stated: once the run is started the commandLine gauge has one
\* series, labelled with the command line, of value 1.
C25_AsStated ==
  RunStarted => \E line \in DOMAIN commandLine : commandLine = (line :> 1)

\* A run of package dnslol that was started, has processed a name and has
\* ended without a series in the commandLine gauge.
C25_NeverSet ==
  /\ rev \in Revisions
  /\ RunStarted /\ Acked >= 1 /\ MainReturned
  /\ commandLine = << >>

\* A step of the spawn goroutine.
SpawnStep == SpawnBatch \/ SpawnReturn \/ SpawnWorker \/ SpawnSleep \/ SpawnWake

\* The workers started since the last sleep ended.
StartedInBatch == spawner.j

\* C26: workers are started only inside a batch, one at a time, and at most
\* SpawnRate of them since the last sleep ended; a batch ends only with
\* SpawnRate workers started and is followed by the sleep; a new batch
\* begins only when spawn has just been started or the sleep has completed;
\* a batch begins only with fewer than Parallel workers started, so the
\* number of workers never reaches Parallel + SpawnRate; the spawn goroutine
\* never blocks, and unless the process ends first it returns.
C26_PacedRamp ==
  /\ [](RunStarted =>
          /\ Len(workers) = spawner.i
          /\ StartedInBatch <= exp.SpawnRate
          /\ (spawner.i - StartedInBatch) % exp.SpawnRate = 0
          /\ spawner.pc \in {"inner", "sleep"} =>
               spawner.i - StartedInBatch < exp.Parallel
          /\ spawner.pc = "sleep" => StartedInBatch = exp.SpawnRate
          /\ spawner.i < exp.Parallel + exp.SpawnRate
          /\ (Running /\ ~RampFinished) => ENABLED SpawnStep)
  /\ [][Len(workers') # Len(workers) =>
          /\ Len(workers') = Len(workers) + 1
          /\ spawner.pc = "inner" /\ spawner'.pc = "inner"
          /\ StartedInBatch' = StartedInBatch + 1]_vars
  /\ [][(spawner.pc = "inner" /\ spawner'.pc # "inner") =>
          spawner'.pc = "sleep" /\ StartedInBatch = exp.SpawnRate]_vars
  /\ [][(spawner.pc # "inner" /\ spawner'.pc = "inner") =>
          /\ spawner.pc = "outer" /\ StartedInBatch' = 0
          /\ spawner.i < exp.Parallel]_vars
  /\ [][(spawner.pc # "outer" /\ spawner'.pc = "outer") =>
          spawner.pc \in {"unstarted", "sleep"}]_vars
  /\ RunStarted ~> (RampFinished \/ Stopped)

\* Two batches of one worker each were started and spawn has returned.
C26_Witness ==
  /\ exp.Parallel = 2 /\ exp.SpawnRate = 1
  /\ RampFinished
  /\ Len(workers) = 2
  /\ Running

Exited(wk) == wk.pc = "exited"

\* C27: a worker has exited only with the names channel closed, and it
\* exits only from its receive, never with a name in hand; while the process
\* runs, a worker waiting in its receive can exit exactly when the channel
\* is closed; once the channel is closed no worker, whenever it was started,
\* receives a name, and a worker started then starts in its receive, where
\* it can only exit; an exited worker stays exited; once the channel is
\* closed the workers all have exited or the process has ended.
C27_WorkerLifetime ==
  /\ [](\A w \in DOMAIN workers :
          /\ Exited(workers[w]) => namesClosed
          /\ (Running /\ workers[w].pc = "recv") =>
               (ENABLED WorkerExit(w) <=> namesClosed))
  /\ [][\A w \in DOMAIN workers :
          /\ (Exited(workers'[w]) /\ ~Exited(workers[w])) =>
               workers[w].pc = "recv" /\ namesClosed
          /\ Exited(workers[w]) => Exited(workers'[w])
          /\ (namesClosed /\ workers[w].pc = "recv") =>
               workers'[w].pc \in {"recv", "exited"}]_vars
  /\ [][\A w \in DOMAIN workers' \ DOMAIN workers : workers'[w].pc = "recv"]_vars
  /\ [][namesClosed => namesClosed']_vars
  /\ namesClosed ~> (Stopped \/ \A w \in DOMAIN workers : Exited(workers[w]))

\* The channel is closed after one name, which was processed and
\* acknowledged, and both workers of the two batches have exited while the
\* process still runs.
C27_Witness ==
  /\ exp.Parallel = 2 /\ exp.SpawnRate = 1
  /\ Running /\ namesClosed
  /\ Len(workers) = 2
  /\ Exited(workers[1]) /\ Exited(workers[2])
  /\ sent = 1 /\ Acked = 1

\* What buildQueries returns for the state's Experiment, name and servers.
BuiltNow ==
  IF rev = "selector" THEN buildQueriesSelector(exp, workers[1].name, PlanServers)
  ELSE buildQueriesServers(exp, workers[1].name, PlanServers, exp.Count)

ResultLabels == {key[2] : key \in DOMAIN results}

\* The texts that can come before the error of a query.
ErrPrefixes ==
  IF rev = "selector"
  THEN {"for " \o TypeToString(t) \o ": " : t \in {TypeA, TypeAAAA, TypeTXT, TypeCAA}}
  ELSE {""}

\* The labels that do not come from the text of a resolver's error.
FixedLabels ==
  {p \o "timeout" : p \in ErrPrefixes} \cup {p \o "net err" : p \in ErrPrefixes}
    \cup RcodeNames \cup MismatchLabels \cup {"ok"}

\* The labels made of the text of an error that is no net.OpError.
ErrorTextLabels ==
  {p \o r.text : p \in ErrPrefixes, r \in {x \in resolver : x.err = "other"}}

InExchange(w, c) == workers[w].children[c].pc = "exchange"

\* C30: in the db revision, while the process runs, the loop of runQueries
\* starts the goroutine of its next query whatever the goroutines started
\* before are doing, and every goroutine that has not finished can take its
\* next step, the exchange included, whatever the other goroutines of the
\* name are doing; a step of one goroutine changes no other goroutine.
C30_IndependentQueries ==
  /\ []((rev = "db" /\ Running) =>
          \A w \in DOMAIN workers :
            /\ (workers[w].pc = "fanout" /\ workers[w].qi <= Len(workers[w].queries)) =>
                 ENABLED WorkerGo(w)
            /\ \A c \in DOMAIN workers[w].children :
                 /\ workers[w].children[c].pc = "attempt" => ENABLED ChildAttempt(w, c)
                 /\ InExchange(w, c) => ENABLED ChildExchange(w, c)
                 /\ workers[w].children[c].pc = "success" => ENABLED ChildSuccess(w, c)
                 /\ workers[w].children[c].pc = "result" => ENABLED ChildResult(w, c)
                 /\ workers[w].children[c].pc = "save" => ENABLED ChildSave(w, c)
                 /\ workers[w].children[c].pc = "done" => ENABLED ChildDone(w, c))
  /\ [][\A w \in DOMAIN workers :
          \A c, d \in DOMAIN workers[w].children :
            (/\ c # d
             /\ workers[w].pc = "fanout" /\ workers'[w].pc = "fanout"
             /\ workers'[w].children[c] # workers[w].children[c]) =>
              workers'[w].children[d] = workers[w].children[d]]_vars

\* The query to s1 has not returned from its exchange while the query to
\* s2, started after it, has been exchanged, recorded and saved.
C30_Witness ==
  /\ rev = "db" /\ Running
  /\ Len(workers[1].children) = 2
  /\ InExchange(1, 1) /\ workers[1].children[1].q.Server.address = "s1"
  /\ workers[1].children[2].pc = "finished"
  /\ workers[1].children[2].q.Server.address = "s2"
  /\ Total(queryTimes) = 1 /\ db.rows = 1

\* The most goroutines that spawn starts.
MaxThreads == MaxParallel + MaxSpawnRate

\* Thread t is in the part of PickServers between Lock and Unlock.
HoldsCursorLock(t) == frames[t].pc \in {"read", "incr", "unlock"}
WaitsForCursorLock(t) == t \in DOMAIN frames /\ frames[t].pc = "lock"

\* C31: the mutex of the cursor is held by thread t exactly while t is
\* between its Lock and its Unlock, that is while it reads and increments
\* the cursor: not when its PickServers is at its return statement or has
\* returned or panicked, and not while the worker builds, attempts or
\* exchanges its queries; while the process runs the holder can always take
\* its next step and a caller at Lock with the mutex free can take it; a
\* caller that waits at Lock gets past it unless the process ends.
C31_LockScope ==
  /\ [](/\ whichMu \in 0..Len(frames)
        /\ \A t \in DOMAIN frames :
             /\ whichMu = t <=> HoldsCursorLock(t)
             /\ (whichMu = t /\ t \in DOMAIN workers) => workers[t].pc = "pick"
             /\ (Running /\ whichMu = t) =>
                  ENABLED (ReadCursor(t) \/ IncrCursor(t) \/ Unlock(t))
             /\ (Running /\ frames[t].pc = "lock" /\ whichMu = 0) => ENABLED Lock(t))
  /\ \A t \in 1..MaxThreads :
       WaitsForCursorLock(t) ~> (~WaitsForCursorLock(t) \/ Stopped)

\* The first worker waits at Lock while the second holds the mutex and is
\* about to increment the cursor.
C31_Witness ==
  /\ rev = "selector" /\ Running
  /\ WaitsForCursorLock(1)
  /\ whichMu = 2 /\ frames[2].pc = "incr"

(***************************************************************************)
(* Experiment.Close of the db revision.  The Experiment's db is nil or a   *)
(* connection (handle), open or not; ended says whether the end of the     *)
(* experiment's row was written; ret is what Close returned.  The answer   *)
(* of the database to the call is an input: the error of the UPDATE, the   *)
(* error of RowsAffected, the rows affected, and the error of db.Close().  *)
(***************************************************************************)
CloseAnswers ==
  [execErr : {Nil, "database is locked"},
   rowsErr : {Nil, "RowsAffected not supported"},
   updated : {0, 1, 2},
   closeErr : {Nil, "close failed"}]

CloseDBs ==
  [open : BOOLEAN, id : {0, 1, 2}, servers : {SavedServers(Addresses(1))},
   rows : {0}, execs : {0}, handle : {Nil, "db"}, ended : {FALSE}, ret : {"unset"}]

\* A Close that is content with any number of rows updated above zero.
UpdatedOne_AtLeast(updated) == updated >= 1

\* if updated != 1 { return fmt.Errorf(...) }
UpdatedOne(updated) == updated = 1

\* Experiment.Close with the database answering ans.
Close(d, ans) ==
  IF d.handle = Nil THEN [d EXCEPT !.ret = "Close requires a non-nil db"]
  ELSE IF d.id = 0 THEN [d EXCEPT !.ret = "Experiment does not have an ID"]
  ELSE IF ans.execErr # Nil THEN [d EXCEPT !.ret = ans.execErr]
  ELSE LET written == [d EXCEPT !.ended = @ \/ ans.updated >= 1] IN
    IF ans.rowsErr # Nil THEN [written EXCEPT !.ret = ans.rowsErr]
    ELSE IF ~UpdatedOne(ans.updated)
    THEN [written EXCEPT !.ret = "Expected to update one experiment row"]
    ELSE [written EXCEPT !.open = FALSE, !.ret = ans.closeErr]

InitClose ==
  /\ rev = "db"
  /\ commandLine = CommandLineAtStart(rev)
  /\ exp = [BaseExperiment EXCEPT !.Servers = Addresses(1)]
  /\ validErr = Nil
  /\ whichServer = 0
  /\ whichMu = 0
  /\ frames = << >>
  /\ calls = 0
  /\ overlapped = FALSE
  /\ picks = << >>
  /\ stdin = << >>
  /\ resolver = {}
  /\ \E ans \in CloseAnswers : inserts = {ans}
  /\ proc = "running"
  /\ mainPC = "wait"
  /\ lineIdx = 1
  /\ startErr = Nil
  /\ metricsStarted = TRUE
  /\ dnsClient = "client"
  /\ db \in {d \in CloseDBs : d.handle = Nil => ~d.open}
  /\ namesClosed = TRUE
  /\ wg = 0
  /\ spawner = [pc |-> "done", i |-> 1, j |-> 1]
  /\ workers = <<[IdleWorker EXCEPT !.pc = "exited"]>>
  /\ attempts = << >>
  /\ successes = << >>
  /\ results = << >>
  /\ queryTimes = << >>
  /\ sent = 0
  /\ acks = << >>

\* exp.Close()
CallClose ==
  /\ db.ret = "unset"
  /\ \E ans \in inserts : db' = Close(db, ans)
  /\ UNCHANGED <<cfgVars, validErr, selVars, callerVars, inputVars, proc, mainPC,
                 lineIdx, startErr, metricsStarted, dnsClient, chanVars, spawner,
                 workerVars>>

SpecClose == InitClose /\ [][CallClose]_vars

CloseAnswer == CHOOSE ans \in inserts : TRUE
CloseReturned == db.ret # "unset"

\* The cases in which Close is to return an error.
CloseRefused(d, ans) ==
  \/ d.handle = Nil
  \/ d.id = 0
  \/ ans.execErr # Nil
  \/ ans.rowsErr = Nil /\ ans.updated # 1

\* C32: a call of Close with a db that is nil, an experiment id that is 0,
\* an UPDATE that fails or an UPDATE that affected a number of rows other
\* than 1 returns an error and leaves the connection as it was, open when it
\* was open; with a nil db or an id of 0 or a failed UPDATE no end time is
\* written; in every other case in which the rows affected can be read the
\* end time of the experiment is written, the connection is closed and
\* Close returns what closing the connection returned.
C32_Close ==
  [][LET ans == CloseAnswer IN
       /\ CloseRefused(db, ans) =>
            /\ db'.ret \notin {Nil, "unset"}
            /\ db'.open = db.open /\ db'.handle = db.handle
       /\ (db.handle = Nil \/ db.id = 0 \/ ans.execErr # Nil) => db'.ended = db.ended
       /\ (~CloseRefused(db, ans) /\ ans.rowsErr = Nil) =>
            /\ db'.ended /\ ~db'.open
            /\ db'.ret = ans.closeErr
       /\ db'.id = db.id /\ db'.servers = db.servers /\ db'.rows = db.rows]_vars

\* The UPDATE of an open connection's experiment affected two rows: Close
\* has returned an error and the connection is open.
C32_Witness ==
  /\ CloseReturned
  /\ db.handle = "db" /\ db.open /\ db.id = 1
  /\ CloseAnswer.execErr = Nil /\ CloseAnswer.rowsErr = Nil /\ CloseAnswer.updated = 2
  /\ db.ret = "Expected to update one experiment row"

(***************************************************************************)
(* Start of the db revision from the point where Valid() has returned nil, *)
(* and the spawn goroutine it starts.                                      *)
(***************************************************************************)
InitSave ==
  /\ rev = "db"
  /\ commandLine = CommandLineAtStart(rev)
  /\ exp \in PlanExperiments(rev)
  /\ validErr = Nil
  /\ whichServer = 0
  /\ whichMu = 0
  /\ frames = << >>
  /\ calls = 0
  /\ overlapped = FALSE
  /\ picks = << >>
  /\ stdin = <<A_COM, EmptyString>>
  /\ resolver = {RespOK}
  /\ inserts = {Inserted}
  /\ proc = "running"
  /\ mainPC = "starting"
  /\ lineIdx = 1
  /\ startErr = "unset"
  /\ metricsStarted = FALSE
  /\ dnsClient = Nil
  /\ db = [open |-> FALSE, id |-> 0, servers |-> << >>, rows |-> 0, execs |-> 0]
  /\ namesClosed = FALSE
  /\ wg = 0
  /\ spawner = [pc |-> "unstarted", i |-> 0, j |-> 0]
  /\ workers = << >>
  /\ attempts = << >>
  /\ successes = << >>
  /\ results = << >>
  /\ queryTimes = << >>
  /\ sent = 0
  /\ acks = <<0, 0>>

NextSave ==
  \/ StartRun
  \/ StartOpenFails
  \/ StartSaveFails
  \/ SpawnBatch
  \/ SpawnWorker
  \/ SpawnSleep
  \/ SpawnWake
  \/ SpawnReturn

SpecSave == InitSave /\ [][NextSave]_vars

\* e.servers holds one server per configured address, in the configured
\* order, each with an id of its own, and e.id is not 0.
Registered ==
  /\ db.id # 0
  /\ Len(db.servers) = Len(exp.Servers)
  /\ \A i \in DOMAIN db.servers :
       /\ db.servers[i].address = exp.Servers[i]
       /\ db.servers[i].id # 0
       /\ \A j \in DOMAIN db.servers : i # j => db.servers[i].id # db.servers[j].id

\* C33: e.servers changes only in the step of Start that saves the
\* experiment, taken once, with no spawn goroutine and no worker started,
\* and that step leaves the experiment registered; whenever Start has
\* returned nil, or spawn or a worker exists, the experiment is registered;
\* when an insert of saveExperiment fails, e.servers is as it was, the
\* process is ended by log.Fatalf inside Start, and there is no spawn
\* goroutine, no worker and no further step.
C33_RegisteredOnce ==
  /\ [][db'.servers # db.servers =>
          /\ mainPC = "starting" /\ mainPC' = "startReturned"
          /\ db.servers = << >> /\ workers = << >> /\ spawner.pc = "unstarted"
          /\ Registered']_vars
  /\ []((startErr = Nil \/ RunStarted \/ workers # << >>) => Registered)
  /\ [](Fatal =>
          /\ mainPC = "starting" /\ startErr = "unset"
          /\ db.servers = << >>
          /\ ~RunStarted /\ workers = << >>
          /\ ~ENABLED NextSave)

\* Two servers were registered in the configured order and the first
\* worker has been started.
C33_Witness ==
  /\ exp.Servers = <<"s1", "s2">>
  /\ db.id = 1
  /\ db.servers = <<[id |-> 1, address |-> "s1"], [id |-> 2, address |-> "s2"]>>
  /\ Len(workers) = 1

\* The TXT queries that buildQueries has returned.
BuiltTXT == SelectSeq(workers[1].queries, LAMBDA q : q.Type = TypeTXT)

\* C34 as stated: with CheckTXT the TXT queries built for a name ask for
\* "_acme-challenge." followed by the name.
C34_AsStated ==
  (PlanBuilt /\ exp.CheckTXT) =>
    /\ Len(BuiltTXT) > 0
    /\ \A k \in DOMAIN BuiltTXT : BuiltTXT[k].Name = ACME_CHALLENGE \o workers[1].name

\* buildQueries of package dnslol has returned a TXT query for the bare name
\* a.com.
C34_BareName ==
  /\ PlanBuilt /\ exp.CheckTXT
  /\ workers[1].name = A_COM
  /\ \E k \in DOMAIN BuiltTXT : BuiltTXT[k].Name = A_COM

(***************************************************************************)
(* reverseName of cmd/dnslol/main.go, applied to a name and again to what  *)
(* it returned.  stdin holds the name and, after it, the results.          *)
(***************************************************************************)
COM_EXAMPLE_WWW ==
  <<"c", "o", "m", ".", "e", "x", "a", "m", "p", "l", "e", ".", "w", "w", "w">>
WWW_EXAMPLE_COM ==
  <<"w", "w", "w", ".", "e", "x", "a", "m", "p", "l", "e", ".", "c", "o", "m">>

\* The names given to reverseName: every string of at most MaxNameLen
\* characters out of a, b and the dot, and com.example.www.
ReverseInputs ==
  UNION {[1..n -> {"a", "b", "."}] : n \in 0..MaxNameLen} \cup {COM_EXAMPLE_WWW}

\* A loop that swaps the outermost labels only.
RECURSIVE swapLabels_Outermost(_, _, _)
swapLabels_Outermost(labels, i, j) ==
  IF i < j
  THEN [labels EXCEPT ![i + 1] = labels[j + 1], ![j + 1] = labels[i + 1]]
  ELSE labels

\* for i, j := 0, len(labels)-1; i < j; i, j = i+1, j-1 {
\*   labels[i], labels[j] = labels[j], labels[i] }
RECURSIVE swapLabels(_, _, _)
swapLabels(labels, i, j) ==
  IF i < j
  THEN swapLabels([labels EXCEPT ![i + 1] = labels[j + 1], ![j + 1] = labels[i + 1]],
                  i + 1, j - 1)
  ELSE labels

reverseName(domain) ==
  LET labels == Split(domain, ".") IN
    Join(swapLabels(labels, 0, Len(labels) - 1), ".")

InitReverse ==
  /\ rev = "servers"
  /\ commandLine = CommandLineAtStart(rev)
  /\ exp = BaseExperiment
  /\ validErr = "unset"
  /\ whichServer = 0
  /\ whichMu = 0
  /\ frames = << >>
  /\ calls = 0
  /\ overlapped = FALSE
  /\ picks = << >>
  /\ \E d \in ReverseInputs : stdin = <<d>>
  /\ resolver = {}
  /\ inserts = {}
  /\ EngineIdle

\* name = reverseName(name)
CallReverseName ==
  /\ Len(stdin) < 3
  /\ stdin' = Append(stdin, reverseName(stdin[Len(stdin)]))
  /\ UNCHANGED <<cfgVars, validErr, selVars, callerVars, resolver, inserts, mainVars,
                 chanVars, spawner, workers, statVars, acks>>

SpecReverse == InitReverse /\ [][CallReverseName]_vars

\* How many of the labels are l.
TimesIn(labels, l) == Cardinality({i \in DOMAIN labels : labels[i] = l})

\* C35: what reverseName returns has the labels of its argument in the
\* opposite order, hence as many labels and each label as many times;
\* reverseName of what it returned is the argument again; and
\* reverseName("com.example.www") is "www.example.com".
C35_ReverseName ==
  /\ Len(stdin) >= 2 =>
       LET given == Split(stdin[1], ".")
           got == Split(stdin[2], ".")
       IN /\ Len(got) = Len(given)
          /\ \A i \in DOMAIN given : got[i] = given[Len(given) + 1 - i]
          /\ \A i \in DOMAIN given : TimesIn(got, given[i]) = TimesIn(given, given[i])
          /\ stdin[1] = COM_EXAMPLE_WWW => stdin[2] = WWW_EXAMPLE_COM
  /\ Len(stdin) = 3 => stdin[3] = stdin[1]

\* a.b.. was reversed to ..b.a and back.
C35_Witness ==
  /\ stdin = <<<<"a", ".", "b", ".", ".">>, <<".", ".", "b", ".", "a">>,
               <<"a", ".", "b", ".", ".">>>>

(***************************************************************************)
(* One goroutine of runQueries of the db revision, from its first          *)
(* statement to the end of saveQueryResult, with the values of the rows    *)
(* inserted: db.table is the results table.                                *)
(***************************************************************************)
\* var errBlob []byte; if err != nil { errBlob = []byte(err.Error()) }
ErrBlob(err) == IF err # Nil THEN err ELSE Nil

\* An INSERT whose error column is made from the error of the last Exec.
RowToInsert_LastErr(q, blob, id, lastErr) ==
  [name |-> q.Name, type |-> q.Type,
   error |-> IF lastErr # Nil THEN ErrBlob(lastErr) ELSE blob,
   serverID |-> q.Server.id, experimentID |-> id]

\* The values of the INSERT: q.Name, q.Type, errBlob, q.Server.id, e.id;
\* lastErr is the variable err, which holds the error of the last Exec.
RowToInsert(q, blob, id, lastErr) ==
  [name |-> q.Name, type |-> q.Type, error |-> blob,
   serverID |-> q.Server.id, experimentID |-> id]

\* The loop of saveQueryResult: st.table is the table, st.err the variable
\* err, errs what the database answers to the Execs in turn.
RECURSIVE insertRows(_, _, _, _, _, _)
insertRows(q, blob, id, errs, i, st) ==
  IF i < maxInsertRetries
  THEN LET row == RowToInsert(q, blob, id, st.err)
           now == [table |-> IF errs[i + 1] = Nil THEN Append(st.table, row)
                             ELSE st.table,
                   execs |-> st.execs + 1,
                   err |-> errs[i + 1]]
       IN IF StopInserting(now.err) THEN now
          ELSE insertRows(q, blob, id, errs, i + 1, now)
  ELSE st

\* The queries that buildQueries can hand to a goroutine.
GoQueries(e) ==
  UNION {{buildQueriesServers(e, name, SavedServers(e.Servers), e.Count)[k] :
            k \in 1..Planned("db", e, name)} : name \in RunNames}

InitInsert ==
  /\ rev = "db"
  /\ commandLine = CommandLineAtStart(rev)
  /\ exp \in PlanExperiments(rev)
  /\ validErr = Nil
  /\ whichServer = 0
  /\ whichMu = 0
  /\ frames = <<IdleFrame>>
  /\ calls = 0
  /\ overlapped = FALSE
  /\ picks = << >>
  /\ \E q \in GoQueries(exp) :
       /\ stdin = <<q.Name, EmptyString>>
       /\ workers = <<[IdleWorker EXCEPT !.pc = "fanout", !.line = 1, !.name = q.Name,
                                         !.queries = <<q>>, !.qi = 2,
                                         !.children = <<NewChild(q)>>, !.lwg = 1]>>
  /\ \E r \in RunResponses : resolver = {r}
  /\ \E errs \in ExecErrs : inserts = {errs}
  /\ proc = "running"
  /\ mainPC = "loop"
  /\ lineIdx = 2
  /\ startErr = Nil
  /\ metricsStarted = TRUE
  /\ dnsClient = "client"
  /\ db = [open |-> TRUE, id |-> 1, servers |-> SavedServers(exp.Servers),
           rows |-> 0, execs |-> 0, table |-> << >>]
  /\ namesClosed = FALSE
  /\ wg = 1
  /\ spawner = [pc |-> "sleep", i |-> 1, j |-> 1]
  /\ attempts = << >>
  /\ successes = << >>
  /\ results = << >>
  /\ queryTimes = << >>
  /\ sent = 1
  /\ acks = <<0, 0>>

\* The goroutine up to its call of saveQueryResult: attempts, queryOne,
\* successes and results; out keeps err for the call.
GoQuery ==
  /\ ChildAt(1, 1, "attempt")
  /\ LET q == workers[1].children[1].q IN
     \E r \in resolver :
       LET o == Outcome(rev, q, Reply(r, q)) IN
         /\ attempts' = CountAttempt(attempts, q)
         /\ queryTimes' = Observe(queryTimes, q, Reply(r, q))
         /\ successes' = IF o.success THEN Inc(successes, ServerLabel(q)) ELSE successes
         /\ results' = Record(results, q, o)
         /\ workers' = [workers EXCEPT ![1].children[1].out = o,
                                        ![1].children[1].pc = "save"]
  /\ UNCHANGED <<notWorkerVars, frames, mainState, chanVars, acks>>

\* e.saveQueryResult(q, err); wg.Done()
GoSave ==
  /\ ChildAt(1, 1, "save")
  /\ LET q == workers[1].children[1].q
         o == workers[1].children[1].out
         err == IF o.success THEN Nil ELSE o.label
     IN \E errs \in inserts :
          LET saved == insertRows(q, ErrBlob(err), db.id, errs, 0,
                                  [table |-> db.table, execs |-> 0, err |-> err])
          IN /\ db' = [db EXCEPT !.table = saved.table, !.rows = Len(saved.table),
                                 !.execs = @ + saved.execs]
             /\ proc' = IF saved.err = Nil THEN proc ELSE "fatal"
             /\ workers' = IF saved.err = Nil
                           THEN [workers EXCEPT ![1].children[1].pc = "finished",
                                                ![1].lwg = @ - 1]
                           ELSE workers
  /\ UNCHANGED <<notWorkerVars, frames, mainPC, lineIdx, startErr, metricsStarted,
                 dnsClient, chanVars, statVars, acks>>

NextInsert ==
  \/ GoQuery
  \/ GoSave

SpecInsert == InitInsert /\ [][NextInsert]_vars

\* The query of the goroutine and what the resolver answers to it.
TheQuery == workers[1].children[1].q

\* C36: the table holds at most one row for the query, one exactly when an
\* Exec was answered without error; the row's error is null exactly when
\* the query's outcome is Success and is otherwise the text of the query's
\* error, the one under which the result was counted; the row's name, type,
\* server id and experiment id are the query's and the experiment's; this
\* is so whether the row was accepted at the first Exec or after one or two
\* failed ones.
C36_RowValues ==
  /\ Len(db.table) <= 1
  /\ Len(db.table) = 1 <=> (workers[1].children[1].pc = "finished")
  /\ workers[1].children[1].pc = "finished" =>
       /\ FirstAccepted(TheInserts) # 0
       /\ db.execs = FirstAccepted(TheInserts)
  /\ \A k \in DOMAIN db.table :
       LET row == db.table[k]
           resp == TheReply(TheQuery)
       IN /\ row.error = Nil <=> Priority(resp) = "Success"
          /\ row.error # Nil =>
               /\ row.error = queryOneServers(TheQuery, resp)
               /\ results = (<<TheQuery.Server.address, row.error>> :> 1)
          /\ row.name = TheQuery.Name /\ row.type = TheQuery.Type
          /\ row.serverID = TheQuery.Server.id
          /\ row.experimentID = db.id

\* The row of a query that timed out was accepted at the third Exec.
C36_Witness ==
  /\ TheInserts = <<"database is locked", "database is locked", Nil>>
  /\ resolver = {RespTimeout}
  /\ db.execs = 3
  /\ db.table = <<[name |-> A_COM, type |-> TypeA, error |-> "timeout",
                   serverID |-> 2, experimentID |-> 1]>>

(***************************************************************************)
(* The round-robin selectors when the cursor reaches the end of its type:  *)
(* the state of a selector that has answered IntMax - 1 calls.             *)
(***************************************************************************)
InitWrap ==
  /\ rev = "selector"
  /\ commandLine = CommandLineAtStart(rev)
  /\ \E a \in SelAddressLists :
       \E k \in {"roundRobin", "pickServer"} :
         exp = [BaseExperiment EXCEPT !.Selector = [kind |-> k, addresses |-> a]]
  /\ validErr = "unset"
  /\ whichServer = IntMax - 1
  /\ whichMu = 0
  /\ \E n \in 1..MaxCallers : frames = [t \in 1..n |-> IdleFrame]
  /\ calls = 0
  /\ overlapped = FALSE
  /\ picks = << >>
  /\ stdin = << >>
  /\ resolver = {}
  /\ inserts = {}
  /\ EngineIdle

SpecWrap == InitWrap /\ [][NextSel]_vars

\* C37 as stated: whatever the number of calls made, the wrap of the cursor
\* included, the index a call computes from the cursor value it read lies in
\* 0..n-1 for the n >= 1 configured addresses, and no call fails on its
\* index.
C37_AsStated ==
  \A t \in DOMAIN frames :
    /\ frames[t].pc # "panic"
    /\ frames[t].pc \in {"incr", "unlock", "return", "done"} =>
         RoundRobinIndex(frames[t].which, Len(SelAddresses))
           \in 0..(Len(SelAddresses) - 1)

\* C37, what the code does: the cursor has gone from the largest int to the
\* smallest, a call over two addresses has read the negative value after
\* it, computed the index -1 and failed on it.
C37_WrapPanics ==
  /\ Len(SelAddresses) = 2
  /\ whichServer = IntMin + 2
  /\ \E t \in DOMAIN frames :
       /\ frames[t].pc = "panic"
       /\ frames[t].which = IntMin + 1
       /\ RoundRobinIndex(frames[t].which, 2) = 0 - 1
  /\ Len(picks) = 3

(***************************************************************************)
(* The selector revision with a round-robin selector, names of several     *)
(* labels and every choice of query types: the run from main's call of     *)
(* Start on three names.                                                   *)
(***************************************************************************)
NamesInput ==
  Split(A_COM \o <<Newline>> \o B_COM \o <<Newline>> \o <<"c">> \o <<Newline>>,
        Newline)

NamesExperiments ==
  {e \in {[BaseExperiment EXCEPT !.Selector = NewRoundRobinSelector(Addresses(n)),
                                 !.Parallel = p, !.SpawnRate = p,
                                 !.CheckA = f[1], !.CheckAAAA = f[2],
                                 !.CheckTXT = f[3], !.CheckCAA = f[4]] :
            n \in 1..MaxSelServers, p \in 1..MaxParallel,
            f \in [1..4 -> BOOLEAN]} :
     /\ Valid("selector", e) = Nil
     /\ \A l \in DOMAIN NamesInput :
          Planned("selector", e, NamesInput[l]) <= MaxRunQueries}

InitNames ==
  /\ rev = "selector"
  /\ commandLine = CommandLineAtStart(rev)
  /\ stdin = NamesInput
  /\ exp \in NamesExperiments
  /\ resolver = {RespOK}
  /\ inserts = {Inserted}
  /\ validErr = "unset"
  /\ whichServer = 0
  /\ whichMu = 0
  /\ frames = << >>
  /\ calls = 0
  /\ overlapped = FALSE
  /\ picks = << >>
  /\ EngineIdle

NextNames ==
  \/ MainCallStart
  \/ StartValidate
  \/ StartRun
  \/ MainStartOK
  \/ MainSkipEmpty
  \/ MainAdd
  \/ MainEndOfInput
  \/ MainClose
  \/ MainWait
  \/ SpawnBatch
  \/ SpawnReturn
  \/ SpawnWorker
  \/ SpawnSleep
  \/ SpawnWake
  \/ DoHandoff
  \/ DoWorkerExit
  \/ DoWorkerRun
  \/ DoWorkerPicked
  \/ WorkerPickLock
  \/ WorkerPickRead
  \/ WorkerPickIncr
  \/ WorkerPickUnlock
  \/ WorkerPickReturn
  \/ DoWorkerAttempt
  \/ DoWorkerExchange
  \/ DoWorkerSuccess
  \/ DoWorkerResult
  \/ DoWorkerDone

SpecNames == InitNames /\ [][NextNames]_vars

\* The worker's name has had its increment of the cursor: its call of
\* PickServers is past w.whichServer++, or its queries are built.
PastIncr(w) ==
  \/ workers[w].pc = "pick" /\ frames[w].pc \in {"unlock", "return", "done"}
  \/ workers[w].pc \in {"attempt", "exchange", "success", "result", "ack"}

\* The names that have had their increment: those in process past it and
\* those acknowledged.
NamesPicked == Total(acks) + Cardinality({w \in DOMAIN workers : PastIncr(w)})

\* The number of queries of a name: one for each enabled type and one for
\* each suffix of the name when CAA is enabled.
QueriesOfName(name) ==
  Cardinality({f \in {"A", "AAAA", "TXT"} :
                 \/ f = "A" /\ exp.CheckA
                 \/ f = "AAAA" /\ exp.CheckAAAA
                 \/ f = "TXT" /\ exp.CheckTXT})
    + (IF exp.CheckCAA THEN Len(Split(name, ".")) ELSE 0)

\* C38: with a round-robin selector the cursor counts the names processed:
\* it is at every moment the number of names whose processing has passed
\* the increment, and the call of PickServers made for a name reads, as the
\* k-th call to take the cursor, the value k - 1; the queries built for a
\* name, one for each enabled type and each CAA suffix, all go to the one
\* server addresses[(k - 1) mod n]; no other step moves the cursor.
C38_OnePickPerName ==
  /\ [](whichServer = NamesPicked)
  /\ [](\A w \in 1..MaxParallel :
          (w \in DOMAIN workers /\ workers[w].queries # << >>) =>
            /\ Len(workers[w].queries) = QueriesOfName(workers[w].name)
            /\ \A k \in DOMAIN workers[w].queries :
                 /\ workers[w].queries[k].Server = workers[w].queries[1].Server
                 /\ workers[w].queries[k].Type # TypeCAA =>
                      workers[w].queries[k].Name = workers[w].name)
  /\ [][\A w \in DOMAIN workers :
          /\ (w \in DOMAIN frames /\ frames[w].pc = "read" /\ frames'[w].pc = "incr") =>
               frames'[w].which = NamesPicked
          /\ (workers[w].pc = "pick" /\ workers'[w].pc = "attempt") =>
               \A k \in DOMAIN workers'[w].queries :
                 workers'[w].queries[k].Server =
                   SelAddresses[(frames[w].which % Len(SelAddresses)) + 1]]_vars

\* Over two addresses, with A and CAA enabled: the second name, b.com, has
\* its three queries on s2 and the third name, c, its two queries on s1.
C38_Witness ==
  /\ Len(SelAddresses) = 2
  /\ whichServer = 3
  /\ \E w, u \in DOMAIN workers :
       /\ workers[w].line = 2
       /\ workers[w].queries =
            <<[Name |-> B_COM, Type |-> TypeA, Server |-> Address(2)],
              [Name |-> B_COM, Type |-> TypeCAA, Server |-> Address(2)],
              [Name |-> <<"c", "o", "m">>, Type |-> TypeCAA, Server |-> Address(2)]>>
       /\ workers[u].line = 3
       /\ workers[u].queries =
            <<[Name |-> <<"c">>, Type |-> TypeA, Server |-> Address(1)],
              [Name |-> <<"c">>, Type |-> TypeCAA, Server |-> Address(1)]>>

(***************************************************************************)
(* The engine with sleeps of any length: every goroutine that can take a   *)
(* step is scheduled, and time.Sleep is not required ever to return.       *)
(***************************************************************************)
ButWake == Next /\ ~SpawnWake

SleepSpec == InitLive /\ [][Next]_vars /\ WF_vars(ButWake)

\* spawn is in the sleep that follows its first batch.
FirstSleep == spawner.pc = "sleep" /\ spawner.i = exp.SpawnRate

\* main is blocked in names <- name.
Sending == Running /\ mainPC = "send"

\* C39: in a run of a valid Experiment spawn has started a worker, and a
\* whole batch of SpawnRate >= 1 workers, when it first sleeps; a first name
\* that main offers during that sleep can be taken at once; and whether or
\* not a sleep ever ends, main does not stay blocked in a send: the name is
\* taken, unless the process ends first.
C39_FirstWorkerBeforeSleep ==
  /\ []((RunStarted /\ spawner.pc = "sleep") =>
          /\ ValidExperiment
          /\ Len(workers) >= exp.SpawnRate /\ exp.SpawnRate >= 1)
  /\ []((Sending /\ sent = 0 /\ FirstSleep) => ENABLED DoHandoff)
  /\ [][(spawner.pc # "sleep" /\ spawner'.pc = "sleep") =>
          /\ spawner.pc = "inner"
          /\ Len(workers) >= 1]_vars
  /\ Sending ~> (~Sending)

\* The first name was taken while spawn, one worker started of the two it is
\* to start, was in its first sleep.
C39_Witness ==
  /\ exp.Parallel = 2 /\ exp.SpawnRate = 1
  /\ FirstSleep
  /\ Len(workers) = 1
  /\ sent = 1
  /\ workers[1].line = 1 /\ workers[1].pc = "run"
  /\ Running

\* The queries to the server that a worker, or a goroutine of the db
\* revision, has at one of the positions pcs.
QueriesAt(server, pcs) ==
  Total([w \in DOMAIN workers |->
           (IF /\ workers[w].pc \in pcs
               /\ ServerLabel(workers[w].queries[workers[w].qi]) = server
            THEN 1 ELSE 0)
           + Cardinality({c \in DOMAIN workers[w].children :
                            /\ workers[w].children[c].pc \in pcs
                            /\ ServerLabel(workers[w].children[c].q) = server})])

AllServers ==
  DOMAIN attempts \cup DOMAIN successes \cup {key[1] : key \in DOMAIN results}

\* C40: in every state, for every server, successes and the sum of results
\* over the labels are at most attempts; a query whose resolution has not
\* returned is already counted in attempts and not yet in results: attempts
\* is the sum of results plus the queries between their attempt and the
\* record of their result, and successes counts no query that results and
\* those about to be recorded do not; the step of the resolution itself
\* changes neither attempts, successes nor results.
C40_CounterOrder ==
  /\ [](\A server \in AllServers :
          /\ Val(successes, server) <= Val(attempts, server)
          /\ ResultsOf(server) <= Val(attempts, server)
          /\ Val(attempts, server)
               = ResultsOf(server) + QueriesAt(server, {"exchange", "success", "result"})
          /\ Val(successes, server) <= ResultsOf(server) + QueriesAt(server, {"result"}))
  /\ [][queryTimes' # queryTimes =>
          /\ attempts' = attempts /\ successes' = successes /\ results' = results
          /\ \E server \in AllServers :
               /\ QueriesAt(server, {"exchange"}) > 0
               /\ QueriesAt(server, {"exchange"})' = QueriesAt(server, {"exchange"}) - 1]_vars
  /\ [][results' # results =>
          \E server \in AllServers :
            /\ QueriesAt(server, {"result"}) > 0
            /\ QueriesAt(server, {"result"})' = QueriesAt(server, {"result"}) - 1]_vars

\* Three queries to one server in the db revision: one recorded as a
\* success, one whose resolution has returned and one still in its
\* resolution.
C40_Witness ==
  /\ rev = "db"
  /\ attempts = ("s1" :> 3)
  /\ successes = ("s1" :> 1)
  /\ results = (<<"s1", "ok">> :> 1)
  /\ QueriesAt("s1", {"exchange"}) = 1
  /\ QueriesAt("s1", {"success", "result"}) = 1

====
